---- MODULE Spec2Model ----
(***************************************************************************)
(* A model of the research-ingestion core of the repository:               *)
(*   - AniListClient  (src/src/anime/anilist.py): the rate limiter, the    *)
(*     query endpoints and the parsing of their answers;                   *)
(*   - RSSFeedParser  (src/src/anime/rss_parser.py): the source registry,  *)
(*     fetch_source, fetch_all_sources, add_source, remove_source;         *)
(*   - EntityLinker   (src/src/anime/entity_linker.py): normalisation,     *)
(*     alias resolution, similarity scoring, the file-backed TTL cache.    *)
(* Optional values (Python's None) are sequences of length 0 or 1.         *)
(***************************************************************************)
EXTENDS Integers, Sequences, FiniteSets, TLC

None == <<>>
Some(v) == <<v>>
IsNone(o) == o = <<>>
Val(o) == o[1]

Range(s) == {s[i] : i \in DOMAIN s}

(***************************************************************************)
(* Bounds of the model.                                                    *)
(***************************************************************************)
\* longest feed one HTTP answer carries in a single fetch_source call
MaxFeedLen == 2
\* most items all the feeds of one fetch_all_sources batch carry together
MaxBatchItems == 2

(***************************************************************************)
(* Ordered dictionaries (Python dict keeps insertion order): a sequence of *)
(* records with a "key" field, no key twice.                               *)
(***************************************************************************)
DictKeys(d) == [i \in DOMAIN d |-> d[i].key]
DictHas(d, k) == \E i \in DOMAIN d : d[i].key = k
DictGet(d, k) == d[CHOOSE i \in DOMAIN d : d[i].key = k]
DictSet(d, e) ==
    IF DictHas(d, e.key)
    THEN [i \in DOMAIN d |-> IF d[i].key = e.key THEN e ELSE d[i]]
    ELSE Append(d, e)
DictDel(d, k) == SelectSeq(d, LAMBDA e : e.key # k)

(***************************************************************************)
(* The source registry.  An entry is a dict; the fields a dict may lack    *)
(* are optional.  Scores are in hundredths (0.95 is 95).                   *)
(***************************************************************************)
SourceEntry(key, name, url, score, enabled) ==
    [key |-> key, name |-> name, url |-> url,
     reliability_score |-> score, enabled |-> enabled]

RSS_SOURCES ==
    << SourceEntry("ann", Some("Anime News Network"), Some("ann_url"), Some(95), Some(TRUE)),
       SourceEntry("ann_interest", Some("ANN Interest"), Some("ann_interest_url"), Some(90), Some(TRUE)),
       SourceEntry("crunchyroll", Some("Crunchyroll News"), Some("crunchyroll_url"), Some(90), Some(FALSE)),
       SourceEntry("mal_news", Some("MyAnimeList News"), Some("mal_url"), Some(85), Some(TRUE)) >>

\* _validate_source: the dict has a "url" and a "reliability_score"
_validate_source(source) ==
    ~IsNone(source.url) /\ ~IsNone(source.reliability_score)

\* RSSFeedParser.__init__: a copy of RSS_SOURCES, then every valid custom source
RECURSIVE AddCustom(_, _)
AddCustom(reg, custom) ==
    IF custom = <<>> THEN reg
    ELSE AddCustom(IF _validate_source(Head(custom))
                   THEN DictSet(reg, Head(custom)) ELSE reg,
                   Tail(custom))

RSSFeedParser_init(custom_sources) == AddCustom(RSS_SOURCES, custom_sources)

\* source.get("enabled", True)
EnabledOf(reg, k) ==
    IF ~DictHas(reg, k) THEN TRUE
    ELSE LET e == DictGet(reg, k).enabled IN IF IsNone(e) THEN TRUE ELSE Val(e)

(***************************************************************************)
(* Feeds.  What one <item>/<entry> of a feed carries that the parser reads *)
(* is its publish date: timezone-aware, timezone-naive or absent.  Dates   *)
(* are whole days before the moment of the call (age; negative: future).   *)
(***************************************************************************)
Ages == {0 - 1, 2, 10}
ItemDescs ==
    {[tz |-> k, age |-> a] : k \in {"aware", "naive"}, a \in Ages}
        \cup {[tz |-> "none", age |-> 0]}

RECURSIVE FeedsUpTo(_)
FeedsUpTo(n) ==
    IF n = 0 THEN {<<>>}
    ELSE LET shorter == FeedsUpTo(n - 1)
         IN  shorter \cup {Append(f, d) : f \in {g \in shorter : Len(g) = n - 1},
                                          d \in ItemDescs}

\* the ways requests.get / raise_for_status / the XML parser can end
FailureKinds == {"timeout", "http_error", "conn_error", "bad_xml"}
Failure(kind) == [kind |-> kind, feed |-> <<>>]
Answer(feed) == [kind |-> "ok", feed |-> feed]
OutcomesUpTo(n) ==
    {Failure(k) : k \in FailureKinds} \cup {Answer(f) : f \in FeedsUpTo(n)}

Days == {7}
Limits == {None, Some(0), Some(1)}

\* RSSItem, built by _parse_feed: n is the item's place in the feed (it
\* stands for title, link and guid)
RSSItem(reg, source_key, n, desc) ==
    [source |-> source_key,
     n |-> n,
     published_at |-> IF desc.tz = "none" THEN None
                      ELSE Some([aware |-> desc.tz = "aware", age |-> desc.age]),
     reliability_score |->
         IF DictHas(reg, source_key)
         THEN DictGet(reg, source_key).reliability_score
         ELSE Some(50)]

\* _parse_feed: a ParseError is caught inside and leaves the list empty
_parse_feed(reg, outcome, source_key) ==
    IF outcome.kind = "bad_xml" THEN <<>>
    ELSE [i \in DOMAIN outcome.feed |-> RSSItem(reg, source_key, i, outcome.feed[i])]

\* the date filter of fetch_source: undated items are kept; a dated item is
\* kept when published_at >= now - days (the aware and the naive branch
\* compare alike)
InWindow(item, days) ==
    IsNone(item.published_at) \/ Val(item.published_at).age <= days

\* "if limit:" is false for None and for 0
ApplyLimit(items, limit) ==
    IF IsNone(limit) \/ Val(limit) = 0 THEN items
    ELSE SubSeq(items, 1, IF Val(limit) < Len(items) THEN Val(limit) ELSE Len(items))

Returned(v, http) == [raised |-> FALSE, exc |-> "", value |-> v, http |-> http]
Raised(e, http) == [raised |-> TRUE, exc |-> e, value |-> <<>>, http |-> http]

\* fetch_source: http counts the requests.get calls issued
fetch_source(reg, source_key, days, limit, outcome) ==
    IF ~DictHas(reg, source_key) THEN Returned(<<>>, 0)
    ELSE LET source == DictGet(reg, source_key) IN
         IF ~EnabledOf(reg, source_key)
         THEN \* the "skipped" message reads source['name'], outside the try
              IF IsNone(source.name) THEN Raised("KeyError", 0)
              ELSE Returned(<<>>, 0)
         ELSE IF IsNone(source.name)
         THEN \* the "fetching" message reads source['name'], outside the try
              Raised("KeyError", 0)
         ELSE IF outcome.kind \in {"timeout", "http_error", "conn_error"}
         THEN Returned(<<>>, 1)
         ELSE LET items == _parse_feed(reg, outcome, source_key)
                  filtered_items == SelectSeq(items, LAMBDA it : InWindow(it, days))
              IN  Returned(ApplyLimit(filtered_items, limit), 1)

(***************************************************************************)
(* fetch_all_sources.                                                      *)
(***************************************************************************)
\* "sources or list(self.sources.keys())": None and the empty list both
\* select the whole registry
SourceKeys(reg, sources_arg) ==
    IF IsNone(sources_arg) \/ Val(sources_arg) = <<>> THEN DictKeys(reg)
    ELSE Val(sources_arg)

\* enabled_sources as it would be if a key outside the registry were left out
EnabledSources_known_only(reg, source_keys) ==
    SelectSeq(source_keys, LAMBDA k : DictHas(reg, k) /\ EnabledOf(reg, k))
EnabledSources(reg, source_keys) ==
    SelectSeq(source_keys, LAMBDA k : EnabledOf(reg, k))
DisabledSources(reg, source_keys) ==
    SelectSeq(source_keys, LAMBDA k : ~EnabledOf(reg, k))

Detail(status, n) == [status |-> status, items |-> n]
SetDetail(details, k, v) ==
    [x \in DOMAIN details \cup {k} |-> IF x = k THEN v ELSE details[x]]

\* the sort key "x.published_at or datetime.min": datetime.min is naive, and
\* ordering an aware datetime against a naive one raises TypeError.  list.sort
\* compares every element after the first with an earlier one, so a list that
\* holds both kinds of key always raises.
KeyIsAware(item) == ~IsNone(item.published_at) /\ Val(item.published_at).aware
MixedKeys(items) ==
    /\ \E i \in DOMAIN items : KeyIsAware(items[i])
    /\ \E i \in DOMAIN items : ~KeyIsAware(items[i])

\* key(a) > key(b): a is strictly newer than b; an undated item is oldest
Newer(a, b) ==
    /\ ~IsNone(a.published_at)
    /\ \/ IsNone(b.published_at)
       \/ Val(a.published_at).age < Val(b.published_at).age

\* sort(key=..., reverse=True) is stable: equal keys keep their order
InsertNewestFirst(sorted, x) ==
    LET before == {i \in DOMAIN sorted : ~Newer(x, sorted[i])}
        \* x goes after the last element that is not older than x, provided
        \* everything up to it is not older than x (sorted is ordered)
        k == IF before = {} THEN 0
             ELSE CHOOSE i \in before : \A j \in before : j <= i
    IN  SubSeq(sorted, 1, k) \o <<x>> \o SubSeq(sorted, k + 1, Len(sorted))

RECURSIVE SortNewestFirst(_)
SortNewestFirst(items) ==
    IF items = <<>> THEN <<>>
    ELSE InsertNewestFirst(SortNewestFirst(SubSeq(items, 1, Len(items) - 1)),
                           items[Len(items)])

\* the loop over enabled_sources; outcomes[i] is what the i-th request meets
RECURSIVE FetchLoop(_, _, _, _, _, _, _)
FetchLoop(reg, enabled, outcomes, days, limit, i, acc) ==
    IF i > Len(enabled) THEN acc
    ELSE LET r == fetch_source(reg, enabled[i], days, limit, outcomes[i])
             called == [acc EXCEPT !.fetched = Append(@, enabled[i]),
                                   !.http = @ + r.http]
         IN  IF r.raised
             THEN [called EXCEPT !.raised = TRUE, !.exc = r.exc]
             ELSE FetchLoop(reg, enabled, outcomes, days, limit, i + 1,
                    IF r.value # <<>>
                    THEN [called EXCEPT
                            !.items = @ \o r.value,
                            !.stats.successful_sources = @ + 1,
                            !.stats.source_details =
                                SetDetail(@, enabled[i], Detail("success", Len(r.value)))]
                    ELSE [called EXCEPT
                            !.stats.failed_sources = @ + 1,
                            !.stats.source_details =
                                SetDetail(@, enabled[i], Detail("failed", 0))])

fetch_all_sources(reg, days, limit_per_source, sources_arg, outcomes) ==
    LET source_keys == SourceKeys(reg, sources_arg)
        enabled_sources == EnabledSources(reg, source_keys)
        disabled_sources == DisabledSources(reg, source_keys)
        start == [raised |-> FALSE, exc |-> "", items |-> <<>>,
                  fetched |-> <<>>, http |-> 0,
                  stats |-> [total_sources |-> Len(source_keys),
                             successful_sources |-> 0,
                             failed_sources |-> 0,
                             skipped_sources |-> Len(disabled_sources),
                             source_details |->
                                 [k \in Range(disabled_sources) |-> Detail("disabled", 0)]]]
        looped == FetchLoop(reg, enabled_sources, outcomes, days,
                            limit_per_source, 1, start)
    IN  IF looped.raised THEN looped
        ELSE IF MixedKeys(looped.items)
        THEN [looped EXCEPT !.raised = TRUE, !.exc = "TypeError"]
        ELSE [looped EXCEPT !.items = SortNewestFirst(@)]

(***************************************************************************)
(* Text.  A text is a sequence of one-character strings.                   *)
(***************************************************************************)
UpperCase == <<"A", "B", "C", "D", "E", "F", "G", "H", "I", "J", "K", "L", "M",
               "N", "O", "P", "Q", "R", "S", "T", "U", "V", "W", "X", "Y", "Z">>
LowerCase == <<"a", "b", "c", "d", "e", "f", "g", "h", "i", "j", "k", "l", "m",
               "n", "o", "p", "q", "r", "s", "t", "u", "v", "w", "x", "y", "z">>
Digits == {"0", "1", "2", "3", "4", "5", "6", "7", "8", "9"}
Whitespace == {" ", "\t", "\n"}

\* str.lower()
LowerChar(c) ==
    IF \E i \in DOMAIN UpperCase : UpperCase[i] = c
    THEN LowerCase[CHOOSE i \in DOMAIN UpperCase : UpperCase[i] = c]
    ELSE c
Lower(text) == [i \in DOMAIN text |-> LowerChar(text[i])]

\* the characters [^\w\s\-:!?] leaves in place
IsWordChar(c) == c \in Range(UpperCase) \cup Range(LowerCase) \cup Digits \cup {"_"}
Kept(c) == IsWordChar(c) \/ c \in Whitespace \/ c \in {"-", ":", "!", "?"}

\* re.sub(r'\s+', ' ', text): every run of whitespace becomes one space
RECURSIVE CollapseWhitespace(_)
CollapseWhitespace(text) ==
    IF text = <<>> THEN <<>>
    ELSE IF Head(text) \in Whitespace
    THEN IF Len(text) > 1 /\ text[2] \in Whitespace
         THEN CollapseWhitespace(Tail(text))
         ELSE <<" ">> \o CollapseWhitespace(Tail(text))
    ELSE <<Head(text)>> \o CollapseWhitespace(Tail(text))

\* str.strip()
RECURSIVE Strip(_)
Strip(text) ==
    IF text = <<>> THEN <<>>
    ELSE IF Head(text) \in Whitespace THEN Strip(Tail(text))
    ELSE IF text[Len(text)] \in Whitespace THEN Strip(SubSeq(text, 1, Len(text) - 1))
    ELSE text

\* _normalize_text as it would be if it trimmed first
_normalize_text_trim_first(text) ==
    CollapseWhitespace(SelectSeq(Strip(Lower(text)), Kept))

_normalize_text(text) ==
    Strip(CollapseWhitespace(SelectSeq(Lower(text), Kept)))

(***************************************************************************)
(* difflib.SequenceMatcher(None, a, b).ratio(), as the fraction 2*M / T.   *)
(* Fractions are kept in lowest terms, so equal scores are equal records.  *)
(***************************************************************************)
RECURSIVE GCD(_, _)
GCD(m, n) == IF n = 0 THEN m ELSE GCD(n, m % n)
Frac(n, d) == LET g == GCD(n, d) IN [num |-> n \div g, den |-> d \div g]
Pct(p) == Frac(p, 100)
FracGE(x, y) == x.num * y.den >= y.num * x.den
FracGT(x, y) == x.num * y.den > y.num * x.den

\* the length of the longest common run of a from i and b from j
RECURSIVE RunLength(_, _, _, _)
RunLength(a, b, i, j) ==
    IF i > Len(a) \/ j > Len(b) THEN 0
    ELSE IF a[i] # b[j] THEN 0
    ELSE 1 + RunLength(a, b, i + 1, j + 1)

SetMax(S) == CHOOSE x \in S : \A y \in S : y <= x
SetMin(S) == CHOOSE x \in S : \A y \in S : x <= y

\* find_longest_match: the longest block a[i..i+k-1] = b[j..j+k-1]; of the
\* longest, the one starting earliest in a; of those, earliest in b
LongestMatch(a, b) ==
    LET k == SetMax({RunLength(a, b, i, j) : i \in 1..Len(a), j \in 1..Len(b)})
    IN  IF k = 0 THEN <<1, 1, 0>>
        ELSE LET i == SetMin({x \in 1..Len(a) :
                                 \E y \in 1..Len(b) : RunLength(a, b, x, y) = k})
                 j == SetMin({y \in 1..Len(b) : RunLength(a, b, i, y) = k})
             IN  <<i, j, k>>

\* get_matching_blocks: the longest block, then the same to its left and to
\* its right; MatchCount is the total length of the blocks
RECURSIVE MatchCount(_, _)
MatchCount(a, b) ==
    IF a = <<>> \/ b = <<>> THEN 0
    ELSE LET blk == LongestMatch(a, b)
             i == blk[1]
             j == blk[2]
             k == blk[3]
         IN  IF k = 0 THEN 0
             ELSE k + MatchCount(SubSeq(a, 1, i - 1), SubSeq(b, 1, j - 1))
                    + MatchCount(SubSeq(a, i + k, Len(a)), SubSeq(b, j + k, Len(b)))

Ratio(a, b) ==
    IF Len(a) + Len(b) = 0 THEN Frac(1, 1)
    ELSE Frac(2 * MatchCount(a, b), Len(a) + Len(b))

_calculate_similarity(text1, text2) ==
    Ratio(_normalize_text(text1), _normalize_text(text2))

(***************************************************************************)
(* The inputs the feed operations are tried on.                            *)
(***************************************************************************)
\* a batch's items: inside the window (newer and older), outside it, aware,
\* naive, undated
BatchItemDescs ==
    {[tz |-> "aware", age |-> 2], [tz |-> "aware", age |-> 10],
     [tz |-> "naive", age |-> 2], [tz |-> "naive", age |-> 5],
     [tz |-> "none", age |-> 0]}

\* fetch_source issues a request for k: k is known, enabled and has a name
WillRequest(reg, k) ==
    DictHas(reg, k) /\ EnabledOf(reg, k) /\ ~IsNone(DictGet(reg, k).name)

NoRequest == [kind |-> "none", feed |-> <<>>]

RECURSIVE BatchFeeds(_)
BatchFeeds(n) ==
    IF n = 0 THEN {<<>>}
    ELSE LET shorter == BatchFeeds(n - 1)
         IN  shorter \cup {Append(f, d) : f \in {g \in shorter : Len(g) = n - 1},
                                          d \in BatchItemDescs}

\* every way the requests of one batch can end, the feeds together carrying
\* at most budget items
RECURSIVE BatchOutcomes(_, _, _, _)
BatchOutcomes(reg, enabled, i, budget) ==
    IF i > Len(enabled) THEN {<<>>}
    ELSE LET mine == IF WillRequest(reg, enabled[i])
                     THEN {Failure(k) : k \in FailureKinds}
                              \cup {Answer(f) : f \in BatchFeeds(budget)}
                     ELSE {NoRequest}
         IN  UNION {{<<o>> \o rest :
                        rest \in BatchOutcomes(reg, enabled, i + 1,
                                               budget - Len(o.feed))} : o \in mine}

FetchKeys == {"ann", "crunchyroll", "fake_broken_feed", "nope"}
SourcesArgs ==
    {None, Some(<<"ann", "nope", "ann">>), Some(<<"crunchyroll", "mal_news">>)}
BatchLimits == {None, Some(1)}

FakeFeed(name, score, enabled) ==
    SourceEntry("fake_broken_feed", name, Some("unreachable_url"), score, enabled)

\* the custom_sources dicts a parser is constructed with
CustomSourcesChoices ==
    { <<>>,
      << FakeFeed(Some("Fake Broken Feed"), Some(50), None) >>,
      << FakeFeed(None, Some(50), None) >>,
      << FakeFeed(None, Some(50), Some(FALSE)) >>,
      << FakeFeed(Some("Fake Broken Feed"), None, None) >>,
      << FakeFeed(Some("Fake Broken Feed"), Some(500), None) >> }

(***************************************************************************)
(* EntityLinker: the catalog's answers, the texts, the alias table.        *)
(***************************************************************************)
\* most link_entity calls in one behaviour
MaxCalls == 3
\* the clock (whole hours) stops here
MaxClock == 1
\* most constructions (after the first two) and clear_cache calls in one
\* behaviour
MaxAdmin == 1

T_OP == <<"O", "P">>
T_op == <<"o", "p">>
T_aot == <<"a", "o", "t">>
T_Naruto == <<"N", "a", "r", "u", "t", "o">>
T_Boruto == <<"B", "o", "r", "u", "t", "o">>
T_OnePiece == <<"O", "n", "e", " ", "P", "i", "e", "c", "e">>
T_ONE_PIECE == <<"O", "N", "E", " ", "P", "I", "E", "C", "E">>
T_AttackOnTitan == <<"A", "t", "t", "a", "c", "k", " ", "o", "n", " ",
                     "T", "i", "t", "a", "n">>
T_Unknown == <<"U", "n", "k", "n", "o", "w", "n">>
T_fate_zero == <<"f", "a", "t", "e", "/", "z", "e", "r", "o">>
T_FateZero == <<"F", "a", "t", "e", "/", "Z", "e", "r", "o">>

\* KNOWN_ALIASES (three of its entries)
KNOWN_ALIASES_initial ==
    [a \in {T_aot, T_op, T_fate_zero} |->
        IF a = T_aot THEN T_AttackOnTitan
        ELSE IF a = T_op THEN T_OnePiece ELSE T_FateZero]

\* the keys in the order of the dict literal
KNOWN_ALIASES_keys == <<T_aot, T_op, T_fate_zero>>

\* the texts link_entity is called with: two spellings with one normalized
\* key (an alias), and a title with another key
Texts == {T_OP, T_op, T_Naruto}

\* AnimeData, as far as link_entity reads it
AnimeData(id, mal, romaji, english, native) ==
    [anilist_id |-> id, mal_id |-> mal, title_romaji |-> romaji,
     title_english |-> english, title_native |-> native]

A_OnePiece == AnimeData(21, Some(21), T_ONE_PIECE, Some(T_OnePiece), None)
A_Boruto == AnimeData(97938, None, T_Boruto, None, None)

\* what search_anime can answer (an empty list also on every failure)
SearchResults == {<<>>, <<A_Boruto, A_OnePiece>>}

\* the (min_confidence, cache_ttl_hours) pairs linkers are constructed with
Configs == {[min_confidence |-> Pct(60), cache_ttl_hours |-> 2],
            [min_confidence |-> Pct(70), cache_ttl_hours |-> 1]}
\* the two linkers alive from the start: one of each
FirstConfig == <<[min_confidence |-> Pct(60), cache_ttl_hours |-> 2],
                 [min_confidence |-> Pct(70), cache_ttl_hours |-> 1]>>

\* get_best_title as it would be with the romanized title first
get_best_title_romaji_first(anime) ==
    IF anime.title_romaji # <<>> THEN anime.title_romaji
    ELSE IF ~IsNone(anime.title_english) /\ Val(anime.title_english) # <<>>
    THEN Val(anime.title_english)
    ELSE IF ~IsNone(anime.title_native) /\ Val(anime.title_native) # <<>>
    THEN Val(anime.title_native)
    ELSE <<"U", "n", "k", "n", "o", "w", "n">>

\* AnimeData.get_best_title: "a or b or c or 'Unknown'" skips None and ""
get_best_title(anime) ==
    IF ~IsNone(anime.title_english) /\ Val(anime.title_english) # <<>>
    THEN Val(anime.title_english)
    ELSE IF anime.title_romaji # <<>> THEN anime.title_romaji
    ELSE IF ~IsNone(anime.title_native) /\ Val(anime.title_native) # <<>>
    THEN Val(anime.title_native)
    ELSE T_Unknown

LinkedEntity(original_text, normalized_title, anilist_id, mal_id, confidence, match_type, anime_data) ==
    [original_text |-> original_text, normalized_title |-> normalized_title,
     anilist_id |-> anilist_id, mal_id |-> mal_id, confidence |-> confidence,
     match_type |-> match_type, anime_data |-> anime_data]

_get_cache_key(text) == _normalize_text(text)

\* _resolve_alias
_resolve_alias(aliases, text) ==
    LET normalized == _normalize_text(text)
    IN  IF normalized \in DOMAIN aliases THEN aliases[normalized] ELSE text

\* the titles of one candidate in the order the loop reads them, without the
\* None and the empty ones
TitlesOf(anime) ==
    SelectSeq(<<Some(anime.title_romaji), anime.title_english, anime.title_native>>,
              LAMBDA t : ~IsNone(t) /\ Val(t) # <<>>)

MatchType(similarity) ==
    IF FracGE(similarity, Pct(95)) THEN "exact"
    ELSE IF FracGE(similarity, Pct(70)) THEN "fuzzy"
    ELSE "partial"

\* the inner loop as it would be if a score as high as the best so far won
RECURSIVE ScanTitles_last_wins(_, _, _, _, _)
ScanTitles_last_wins(resolved_text, anime, titles, j, best) ==
    IF j > Len(titles) THEN best
    ELSE LET similarity == _calculate_similarity(resolved_text, Val(titles[j]))
         IN  ScanTitles_last_wins(resolved_text, anime, titles, j + 1,
                IF FracGE(similarity, best.best_confidence)
                THEN [best_match |-> Some(anime),
                      best_confidence |-> similarity,
                      match_type |-> MatchType(similarity)]
                ELSE best)

\* the inner loop: one title after the other, a strictly higher score wins
RECURSIVE ScanTitles(_, _, _, _, _)
ScanTitles(resolved_text, anime, titles, j, best) ==
    IF j > Len(titles) THEN best
    ELSE LET similarity == _calculate_similarity(resolved_text, Val(titles[j]))
         IN  ScanTitles(resolved_text, anime, titles, j + 1,
                IF FracGT(similarity, best.best_confidence)
                THEN [best_match |-> Some(anime),
                      best_confidence |-> similarity,
                      match_type |-> MatchType(similarity)]
                ELSE best)

\* the outer loop over the search results
RECURSIVE FindBestMatch(_, _, _, _)
FindBestMatch(resolved_text, results, i, best) ==
    IF i > Len(results) THEN best
    ELSE FindBestMatch(resolved_text, results, i + 1,
            ScanTitles(resolved_text, results[i], TitlesOf(results[i]), 1, best))

NoBest == [best_match |-> None, best_confidence |-> Frac(0, 1), match_type |-> "none"]

\* MakeEntity as it would be if every "no match" result carried confidence 0.0
MakeEntity_zero_confidence(text, resolved_text, results, min_confidence) ==
    IF results = <<>>
    THEN LinkedEntity(text, text, None, None, Frac(0, 1), "none", None)
    ELSE LET best == FindBestMatch(resolved_text, results, 1, NoBest)
         IN  IF ~IsNone(best.best_match)
                /\ FracGE(best.best_confidence, min_confidence)
             THEN LET m == Val(best.best_match)
                  IN  LinkedEntity(text, get_best_title(m), Some(m.anilist_id),
                                   m.mal_id, best.best_confidence,
                                   best.match_type, Some(m))
             ELSE LinkedEntity(text, text, None, None, Frac(0, 1), "none", None)

\* link_entity past the cache: the entity made from the search results
MakeEntity(text, resolved_text, results, min_confidence) ==
    IF results = <<>>
    THEN LinkedEntity(text, text, None, None, Frac(0, 1), "none", None)
    ELSE LET best == FindBestMatch(resolved_text, results, 1, NoBest)
         IN  IF ~IsNone(best.best_match)
                /\ FracGE(best.best_confidence, min_confidence)
             THEN LET m == Val(best.best_match)
                  IN  LinkedEntity(text, get_best_title(m), Some(m.anilist_id),
                                   m.mal_id, best.best_confidence,
                                   best.match_type, Some(m))
             ELSE LinkedEntity(text, text, None, None, best.best_confidence,
                               "none", None)

(***************************************************************************)
(* The cache: a dict from normalized key to entry, in memory and in the    *)
(* file entity_cache.json.                                                 *)
(***************************************************************************)
EmptyCache == [k \in {} |-> None]

\* _check_cache: no look at cached_at
_check_cache(cache, text) ==
    LET key == _get_cache_key(text)
    IN  IF key \in DOMAIN cache
        THEN LET entry == cache[key]
             IN  Some(LinkedEntity(text, entry.normalized_title, entry.anilist_id,
                                   entry.mal_id, entry.confidence,
                                   entry.match_type, entry.anime_data))
        ELSE None

CacheEntry(entity, at) ==
    [normalized_title |-> entity.normalized_title,
     anilist_id |-> entity.anilist_id, mal_id |-> entity.mal_id,
     confidence |-> entity.confidence, match_type |-> entity.match_type,
     anime_data |-> entity.anime_data, cached_at |-> at]

\* _add_to_cache as it would be if only linked results were kept
_add_to_cache_linked_only(cache, text, entity, at) ==
    IF IsNone(entity.anilist_id) THEN cache
    ELSE [k \in DOMAIN cache \cup {_get_cache_key(text)} |->
            IF k = _get_cache_key(text) THEN CacheEntry(entity, at) ELSE cache[k]]

\* _add_to_cache, the in-memory part (_save_cache then writes all of it)
_add_to_cache(cache, text, entity, at) ==
    LET key == _get_cache_key(text)
    IN  [k \in DOMAIN cache \cup {key} |->
            IF k = key THEN CacheEntry(entity, at) ELSE cache[k]]

\* _load_cache as it would be with no look at cached_at
_load_cache_keep_all(file, at, cache_ttl) ==
    IF IsNone(file) THEN EmptyCache ELSE Val(file)

\* _load_cache: the entries of the file younger than the TTL
_load_cache(file, at, cache_ttl) ==
    IF IsNone(file) THEN EmptyCache
    ELSE LET data == Val(file)
             fresh == {k \in DOMAIN data : at - data[k].cached_at < cache_ttl}
         IN  [k \in fresh |-> data[k]]

\* link_entity: the entity returned, the cache afterwards, the catalog calls
link_entity(linker, aliases, text, use_cache, results, at) ==
    LET cached == IF use_cache THEN _check_cache(linker.cache, text) ELSE None
    IN  IF ~IsNone(cached)
        THEN [entity |-> Val(cached), cache |-> linker.cache, catalog_calls |-> 0,
              saved |-> FALSE]
        ELSE LET resolved_text == _resolve_alias(aliases, text)
                 entity == MakeEntity(text, resolved_text, results,
                                      linker.min_confidence)
             IN  [entity |-> entity,
                  cache |-> _add_to_cache(linker.cache, text, entity, at),
                  catalog_calls |-> 1, saved |-> TRUE]

(***************************************************************************)
(* AniListClient (src/src/anime/anilist.py).  JSON values as the client    *)
(* reads them: null, numbers, strings (texts), lists and objects; a key an *)
(* object lacks is outside the domain of its fields.                       *)
(***************************************************************************)
JNull == [t |-> "null"]
JInt(n) == [t |-> "int", n |-> n]
JStr(s) == [t |-> "str", s |-> s]
JList(s) == [t |-> "list", l |-> s]
JObj(fields) == [t |-> "obj", f |-> fields]
EmptyDict == JObj([k \in {} |-> JNull])

IsObj(x) == x.t = "obj"
\* bool(x)
Truthy(x) ==
    IF x.t = "null" THEN FALSE
    ELSE IF x.t = "int" THEN x.n # 0
    ELSE IF x.t = "obj" THEN DOMAIN x.f # {}
    ELSE IF x.t = "list" THEN x.l # <<>>
    ELSE x.s # <<>>
\* dict.get(key, default) and "key in dict"
D_has(o, key) == key \in DOMAIN o.f
D_get(o, key, default) == IF D_has(o, key) THEN o.f[key] ELSE default

Ok(v) == [raised |-> FALSE, exc |-> "", value |-> v]
Exc(e) == [raised |-> TRUE, exc |-> e, value |-> <<>>]

\* a JSON string or null as the Optional[str] the dataclass holds
ToOptional(j) == IF j.t = "null" THEN None ELSE Some(j.s)

\* media.get(key, {}).get(...) raises AttributeError when the key is there and
\* its value is not an object (null, for one)
GetGetRaises(media, key) == D_has(media, key) /\ ~IsObj(media.f[key])

\* the startDate / endDate block: media.get(key) falsy skips it; otherwise
\* sd.get("year") needs an object
DateRaises(media, key) ==
    LET sd == D_get(media, key, JNull)
    IN  Truthy(sd) /\ ~IsObj(sd)

\* the studios block: the list comprehension calls s.get("name") on every node
StudiosRaises(media) ==
    \/ GetGetRaises(media, "studios")
    \/ LET nodes == D_get(D_get(media, "studios", EmptyDict), "nodes", JNull)
       IN  /\ Truthy(nodes)
           /\ \/ nodes.t # "list"
              \/ \E i \in DOMAIN nodes.l : ~IsObj(nodes.l[i])

\* the relations / characters / staff blocks: edge.get("node"), then
\* edge["node"].get(inner, {}).get(...) for the inner keys of the block
EdgesRaises(media, key, inner) ==
    \/ GetGetRaises(media, key)
    \/ LET edges == D_get(D_get(media, key, EmptyDict), "edges", JNull)
       IN  /\ Truthy(edges)
           /\ \/ edges.t # "list"
              \/ \E i \in DOMAIN edges.l :
                    \/ ~IsObj(edges.l[i])
                    \/ LET node == D_get(edges.l[i], "node", JNull)
                       IN  /\ Truthy(node)
                           /\ \/ ~IsObj(node)
                              \/ \E k \in inner : GetGetRaises(node, k)

\* media.get("tags", [])[:10], then t["name"] and t.get("rank") of each tag
TagsExc(media) ==
    LET tags == D_get(media, "tags", JList(<<>>))
    IN  IF tags.t # "list" THEN "TypeError"
        ELSE LET first == SubSeq(tags.l, 1, IF Len(tags.l) < 10 THEN Len(tags.l) ELSE 10)
                 bad == {i \in DOMAIN first : ~IsObj(first[i]) \/ ~D_has(first[i], "name")}
             IN  IF bad = {} THEN ""
                 ELSE IF IsObj(first[SetMin(bad)]) THEN "KeyError" ELSE "TypeError"

\* _parse_anime: the blocks in the order of the code; the AnimeData is kept as
\* far as the linker reads it.  title_romaji is "" for an absent key and None
\* for a null; both are the empty text here (every reader tests it for truth).
_parse_anime(media) ==
    IF ~IsObj(media) THEN Exc("AttributeError")
    ELSE IF DateRaises(media, "startDate") \/ DateRaises(media, "endDate")
    THEN Exc("AttributeError")
    ELSE IF StudiosRaises(media) THEN Exc("AttributeError")
    ELSE IF EdgesRaises(media, "relations", {"title"}) THEN Exc("AttributeError")
    ELSE IF EdgesRaises(media, "characters", {"name", "image"}) THEN Exc("AttributeError")
    ELSE IF EdgesRaises(media, "staff", {"name", "image"}) THEN Exc("AttributeError")
    ELSE IF GetGetRaises(media, "title") THEN Exc("AttributeError")
    ELSE IF TagsExc(media) # "" THEN Exc(TagsExc(media))
    ELSE IF GetGetRaises(media, "coverImage") THEN Exc("AttributeError")
    ELSE LET title_obj == D_get(media, "title", EmptyDict)
             id_val == D_get(media, "id", JInt(0))
             romaji == ToOptional(D_get(title_obj, "romaji", JStr(<<>>)))
         IN  Ok(AnimeData(id_val.n,
                          IF Truthy(D_get(media, "idMal", JNull))
                          THEN Some(D_get(media, "idMal", JNull).n) ELSE None,
                          IF IsNone(romaji) THEN <<>> ELSE Val(romaji),
                          ToOptional(D_get(title_obj, "english", JNull)),
                          ToOptional(D_get(title_obj, "native", JNull))))

\* the lists of the AnimeData _parse_anime builds (for a media it does not
\* raise on).  "[:10]" is on tags, on the character edges and on the staff
\* edges; the relation edges are read to the end.  An edge with no node is
\* skipped.
FirstTen(l) == SubSeq(l, 1, IF Len(l) < 10 THEN Len(l) ELSE 10)
EdgesOf(media, key) ==
    LET edges == D_get(D_get(media, key, EmptyDict), "edges", JNull)
    IN  IF Truthy(edges) THEN edges.l ELSE <<>>
WithNode(edges) == SelectSeq(edges, LAMBDA edge : Truthy(D_get(edge, "node", JNull)))
ParsedTags(media) ==
    LET first == FirstTen(D_get(media, "tags", JList(<<>>)).l)
    IN  [i \in DOMAIN first |->
            [name |-> first[i].f.name, rank |-> D_get(first[i], "rank", JNull)]]
ParsedRelations(media) ==
    LET kept == WithNode(EdgesOf(media, "relations"))
    IN  [i \in DOMAIN kept |->
            [relation_type |-> D_get(kept[i], "relationType", JNull),
             anilist_id |-> D_get(kept[i].f.node, "id", JNull),
             title |-> D_get(D_get(kept[i].f.node, "title", EmptyDict), "romaji", JNull),
             format |-> D_get(kept[i].f.node, "format", JNull)]]
\* characters and staff
ParsedPeople(media, key) ==
    LET kept == WithNode(FirstTen(EdgesOf(media, key)))
    IN  [i \in DOMAIN kept |->
            [name |-> D_get(D_get(kept[i].f.node, "name", EmptyDict), "full", JNull),
             role |-> D_get(kept[i], "role", JNull),
             image |-> D_get(D_get(kept[i].f.node, "image", EmptyDict), "medium", JNull)]]

\* the ways session.post / raise_for_status / response.json can end
TransportFailures == {"timeout", "conn_error", "http_error", "not_json"}
Failed(kind) == [kind |-> kind, body |-> JNull]
Body(json) == [kind |-> "json", body |-> json]

\* _execute_query past the rate limiter: None (null) for every failure the
\* try block catches.  A body that is no object ends in the try as well:
\* '"errors" in data' or data.get raises there.
_execute_query(outcome) ==
    IF outcome.kind \in TransportFailures THEN JNull
    ELSE LET data == outcome.body
         IN  IF ~IsObj(data) THEN JNull
             ELSE IF D_has(data, "errors") THEN JNull
             ELSE D_get(data, "data", JNull)

\* [self._parse_anime(m) for m in data["Page"]["media"]]
RECURSIVE ParseAll(_, _, _)
ParseAll(media, i, acc) ==
    IF i > Len(media) THEN Ok(acc)
    ELSE LET r == _parse_anime(media[i])
         IN  IF r.raised THEN r ELSE ParseAll(media, i + 1, Append(acc, r.value))

\* get_trending_anime, get_seasonal_anime, get_top_anime and search_anime
\* after the query: the same lines in each
PageOfAnime(outcome) ==
    LET data == _execute_query(outcome)
    IN  IF ~Truthy(data) THEN Ok(<<>>)
        ELSE IF ~IsObj(data) THEN Exc("AttributeError")
        ELSE LET page == D_get(data, "Page", EmptyDict)
             IN  IF ~IsObj(page) THEN Exc("AttributeError")
                 ELSE LET media == D_get(page, "media", JNull)
                      IN  IF ~Truthy(media) THEN Ok(<<>>)
                          ELSE IF media.t = "int" THEN Exc("TypeError")
                          ELSE IF media.t # "list" THEN Exc("AttributeError")
                          ELSE ParseAll(media.l, 1, <<>>)

get_anime_details(outcome) ==
    LET data == _execute_query(outcome)
    IN  IF ~Truthy(data) THEN Ok(None)
        ELSE IF ~IsObj(data) THEN Exc("AttributeError")
        ELSE LET media == D_get(data, "Media", JNull)
             IN  IF ~Truthy(media) THEN Ok(None)
                 ELSE LET r == _parse_anime(media)
                      IN  IF r.raised THEN r ELSE Ok(Some(r.value))

ListEndpoints ==
    {"get_trending_anime", "get_seasonal_anime", "get_top_anime", "search_anime"}
Endpoints == ListEndpoints \cup {"get_anime_details"}
CallEndpoint(endpoint, outcome) ==
    IF endpoint \in ListEndpoints THEN PageOfAnime(outcome)
    ELSE get_anime_details(outcome)

(***************************************************************************)
(* The rate limiter.  Time is in tenths of a second.                       *)
(***************************************************************************)
RATE_LIMIT_DELAY == 7
\* most requests of one client in one behaviour
MaxRequests == 3
\* the caller stops waiting between calls at this time
MaxTime == 30
\* how long time.sleep overshoots, how long a request takes, how long the
\* caller waits between calls
Oversleep == {0, 1}
Durations == {0, 3, 9}
Waits == {2, 7}

\* _rate_limit at the time "clock": the sleep, and the time the method
\* leaves in _last_request_time
_rate_limit_no_sleep(clock_now, last_request_time, over) ==
    [slept |-> 0, last_request_time |-> clock_now]

_rate_limit(clock_now, last_request_time, over) ==
    LET elapsed == clock_now - last_request_time
        slept == IF elapsed < RATE_LIMIT_DELAY
                 THEN RATE_LIMIT_DELAY - elapsed + over ELSE 0
    IN  [slept |-> slept, last_request_time |-> clock_now + slept]

(***************************************************************************)
(* What the remote end can answer.                                         *)
(***************************************************************************)
T_W == <<"W">>

MediaFields ==
    [id |-> JInt(97938),
     idMal |-> JNull,
     title |-> JObj([romaji |-> JStr(T_Boruto), english |-> JNull]),
     startDate |-> JObj([year |-> JInt(2017), month |-> JNull]),
     endDate |-> JNull,
     studios |-> JObj([nodes |-> JList(<<JObj([name |-> JStr(T_W)])>>)]),
     tags |-> JList(<<JObj([name |-> JStr(T_W), rank |-> JInt(90)])>>),
     coverImage |-> JObj([large |-> JStr(T_W)])]

\* a media entry as the schema promises it, and one that lacks the optional
\* blocks altogether
GoodMedia ==
    {JObj(MediaFields),
     JObj([id |-> JInt(21)])}

\* entries with a null where the parser expects an object or a list, and a
\* tag with no name
NullFieldMedia ==
    {JObj([MediaFields EXCEPT !.title = JNull]),
     JObj([MediaFields EXCEPT !.studios = JNull]),
     JObj([MediaFields EXCEPT !.tags = JNull]),
     JObj([MediaFields EXCEPT !.coverImage = JNull]),
     JObj([MediaFields EXCEPT !.tags = JList(<<JObj([rank |-> JInt(90)])>>)])}

\* get_anime_details also asks for relations, characters and staff
DetailFields ==
    [k \in DOMAIN MediaFields \cup {"relations", "characters"} |->
        IF k = "relations"
        THEN JObj([edges |-> JList(<<JObj([relationType |-> JStr(T_W),
                                           node |-> JObj([id |-> JInt(21),
                                                          title |-> JObj([romaji |-> JStr(T_ONE_PIECE)])])])>>)])
        ELSE IF k = "characters"
        THEN JObj([edges |-> JList(<<JObj([role |-> JStr(T_W),
                                           node |-> JObj([name |-> JObj([full |-> JStr(T_W)]),
                                                          image |-> JObj([medium |-> JStr(T_W)])])])>>)])
        ELSE MediaFields[k]]
GoodDetail == {JObj(DetailFields)}
NullFieldDetail ==
    {JObj([DetailFields EXCEPT !.title = JNull]),
     JObj([DetailFields EXCEPT !.relations = JNull]),
     JObj([DetailFields EXCEPT
             !.characters = JObj([edges |-> JList(<<JObj([node |-> JObj([name |-> JNull])])>>)])])}

DataBody(d) == JObj([data |-> d])
PageBody(media) == DataBody(JObj([Page |-> JObj([media |-> media])]))
MediaBody(m) == DataBody(JObj([Media |-> m]))

\* bodies that answer a list query with zero or more well-formed entries
GoodPages ==
    {PageBody(JList(<<>>))} \cup {PageBody(JList(<<m>>)) : m \in GoodMedia}
        \cup {PageBody(JList(<<JObj(MediaFields), JObj([id |-> JInt(21)])>>))}
GoodDetails == {MediaBody(m) : m \in GoodDetail}

\* a payload carrying an errors array
ErrorPayloads ==
    {JObj([errors |-> JList(<<JStr(T_W)>>), data |-> JNull]),
     JObj([errors |-> JList(<<JStr(T_W)>>)])}

\* JSON of unexpected shape: not an object; no data; data that is no object;
\* a null or missing Page / Media; a null media list; a media list with an
\* entry of unexpected shape
MisshapenCommon ==
    {JNull, JList(<<>>), EmptyDict, DataBody(JNull), DataBody(EmptyDict),
     DataBody(JList(<<JInt(1)>>))}
MisshapenPages ==
    MisshapenCommon
        \cup {DataBody(JObj([Page |-> JNull])), DataBody(JObj([Page |-> EmptyDict])),
              PageBody(JNull), PageBody(JList(<<JNull>>))}
        \cup {PageBody(JList(<<m>>)) : m \in NullFieldMedia}
        \cup {PageBody(JList(<<JObj(MediaFields), m>>)) : m \in NullFieldMedia}
MisshapenDetails ==
    MisshapenCommon
        \cup {MediaBody(JNull)}
        \cup {MediaBody(m) : m \in NullFieldDetail}

GoodBodies(endpoint) ==
    IF endpoint \in ListEndpoints THEN GoodPages ELSE GoodDetails
MisshapenBodies(endpoint) ==
    IF endpoint \in ListEndpoints THEN MisshapenPages ELSE MisshapenDetails

RemoteOutcomes(endpoint) ==
    {Failed(k) : k \in TransportFailures}
        \cup {Body(b) : b \in ErrorPayloads}
        \cup {Body(b) : b \in GoodBodies(endpoint)}
        \cup {Body(b) : b \in MisshapenBodies(endpoint)}

(***************************************************************************)
(* extract_entities and extract_and_link.  The Japanese quotes are the     *)
(* characters "u300C" .. "u300F".                                          *)
(***************************************************************************)
TITLE_PATTERNS ==
    << [open |-> "\"", close |-> "\""],
       [open |-> "'", close |-> "'"],
       [open |-> "u300C", close |-> "u300D"],
       [open |-> "u300E", close |-> "u300F"] >>

\* re.findall(open ([^close]+) close, text) from position i on: the matches
\* from left to right, none overlapping another
RECURSIVE FindQuoted(_, _, _)
FindQuoted(text, pattern, i) ==
    IF i > Len(text) THEN <<>>
    ELSE IF text[i] # pattern.open THEN FindQuoted(text, pattern, i + 1)
    ELSE LET closers == {j \in (i + 1)..Len(text) : text[j] = pattern.close}
         IN  IF closers = {} \/ SetMin(closers \cup {Len(text) + 1}) = i + 1
             THEN FindQuoted(text, pattern, i + 1)
             ELSE <<SubSeq(text, i + 1, SetMin(closers) - 1)>>
                      \o FindQuoted(text, pattern, SetMin(closers) + 1)

\* \b before position p: exactly one of the characters on its two sides is a
\* word character (the ends of the text count as none)
IsW(text, p) == p >= 1 /\ p <= Len(text) /\ IsWordChar(text[p])
WordBoundary(text, p) == IsW(text, p - 1) # IsW(text, p)

\* re.search(rf'\b{re.escape(alias)}\b', text_lower)
AliasFound(alias, text_lower) ==
    \E p \in 1..(Len(text_lower) - Len(alias) + 1) :
        /\ SubSeq(text_lower, p, p + Len(alias) - 1) = alias
        /\ WordBoundary(text_lower, p)
        /\ WordBoundary(text_lower, p + Len(alias))

\* "remove duplicates while preserving order": the first of every normalized
\* form stays
RECURSIVE Unique(_, _, _)
Unique(entities, i, unique_entities) ==
    IF i > Len(entities) THEN unique_entities
    ELSE Unique(entities, i + 1,
                IF \E j \in DOMAIN unique_entities :
                      _normalize_text(unique_entities[j]) = _normalize_text(entities[i])
                THEN unique_entities
                ELSE Append(unique_entities, entities[i]))

RECURSIVE AllQuoted(_, _)
AllQuoted(text, k) ==
    IF k > Len(TITLE_PATTERNS) THEN <<>>
    ELSE FindQuoted(text, TITLE_PATTERNS[k], 1) \o AllQuoted(text, k + 1)

\* extract_entities: aliases is the class table, keys its keys in dict order
extract_entities(aliases, keys, text) ==
    LET quoted == AllQuoted(text, 1)
        text_lower == Lower(text)
        found == SelectSeq(keys, LAMBDA alias : AliasFound(alias, text_lower))
        full_names == [i \in DOMAIN found |-> aliases[found[i]]]
    IN  Unique(quoted \o full_names, 1, <<>>)

\* the catalog behind search_anime: what a search for a query answers
A_AttackOnTitan == AnimeData(16498, None, <<>>, Some(T_AttackOnTitan), None)
Catalogs == {"attack_on_titan", "empty"}
Search(catalog, query) ==
    IF catalog = "attack_on_titan" /\ query = T_AttackOnTitan
    THEN <<A_AttackOnTitan>> ELSE <<>>

\* link_entities: link_entity for one text after the other, each on the
\* cache the one before left
RECURSIVE link_entities(_, _, _, _, _, _, _, _)
link_entities(linker, aliases, texts, use_cache, catalog, at, i, acc) ==
    IF i > Len(texts) THEN acc
    ELSE LET Rest(r) ==
                 link_entities(linker, aliases, texts, use_cache, catalog, at, i + 1,
                               [value |-> Append(acc.value, r.entity),
                                cache |-> r.cache,
                                saved |-> acc.saved \/ r.saved])
         IN  Rest(link_entity([linker EXCEPT !.cache = acc.cache], aliases,
                              texts[i], use_cache,
                              Search(catalog, _resolve_alias(aliases, texts[i])), at))

extract_and_link(linker, aliases, keys, text, use_cache, catalog, at) ==
    LET entities == extract_entities(aliases, keys, text)
    IN  link_entities(linker, aliases, entities, use_cache, catalog, at, 1,
                      [value |-> <<>>, cache |-> linker.cache, saved |-> FALSE])

\* add_alias: KNOWN_ALIASES[alias.lower()] = full_name
add_alias(aliases, alias, full_name) ==
    [k \in DOMAIN aliases \cup {Lower(alias)} |->
        IF k = Lower(alias) THEN full_name ELSE aliases[k]]
add_alias_keys(keys, alias) ==
    IF \E i \in DOMAIN keys : keys[i] = Lower(alias) THEN keys
    ELSE Append(keys, Lower(alias))

(***************************************************************************)
(* The texts and aliases the extraction is tried on.                       *)
(***************************************************************************)
T_NewTrailer ==
    <<"N", "e", "w", " ", "t", "r", "a", "i", "l", "e", "r", " ", "f", "o",
      "r", " ", "[", "A", "t", "t", "a", "c", "k", " ", "o", "n", " ", "T",
      "i", "t", "a", "n", "]", " ", "d", "r", "o", "p", "p", "e", "d", "!">>
T_NewTrailerQuoted ==
    <<"N", "e", "w", " ", "t", "r", "a", "i", "l", "e", "r", " ", "f", "o",
      "r", " ", "\"", "A", "t", "t", "a", "c", "k", " ", "o", "n", " ",
      "T", "i", "t", "a", "n", "\"", " ", "d", "r", "o", "p", "p", "e",
      "d", "!">>
T_AotIsBack ==
    <<"A", "O", "T", " ", "i", "s", " ", "b", "a", "c", "k">>
T_AnXyzEp ==
    <<"a", "n", " ", "X", "Y", "Z", " ", "e", "p">>
T_Xyzzy ==
    <<"p", "l", "a", "y", " ", "x", "y", "z", "z", "y">>
T_QuotedThenXyz ==
    <<"'", "f", "u", "l", "l", " ", "t", "i", "t", "l", "e", "'", " ", "x",
      "y", "z">>
T_WatchKOn ==
    <<"w", "a", "t", "c", "h", " ", "k", "-", "o", "n", "!", " ", "n", "o",
      "w">>
T_XYZ ==
    <<"X", "Y", "Z">>
T_FullTitle ==
    <<"F", "u", "l", "l", " ", "T", "i", "t", "l", "e">>
T_KOn ==
    <<"K", "-", "O", "n", "!">>

ExtractTexts ==
    {T_NewTrailer, T_NewTrailerQuoted, T_AotIsBack, T_AnXyzEp, T_Xyzzy,
     T_QuotedThenXyz, T_WatchKOn}
AliasInputs ==
    {[alias |-> T_XYZ, full_name |-> T_FullTitle],
     [alias |-> T_KOn, full_name |-> T_KOn]}
\* the texts link_entity is called with next to the alias table: aliases of
\* the table and aliases add_alias is given, in some letter case, and a text
\* that is no alias
T_xyz == <<"x", "y", "z">>
AliasTexts == {T_OP, T_aot, T_fate_zero, T_xyz, T_KOn, T_Naruto}
\* most extraction calls, and most add_alias calls, in one behaviour
MaxExtracts == 2
MaxAliases == 2

(***************************************************************************)
(* The functions checked on their own: _normalize_text, get_best_title,    *)
(* get_current_season, and the arguments they are applied to.              *)
(***************************************************************************)
\* longest text _normalize_text is applied to
MaxTextLen == 4
\* an upper-case and a lower-case letter, two kinds of whitespace, a kept and
\* a removed punctuation mark
TextAlphabet == {"A", "a", " ", "\t", "-", "#"}

RECURSIVE TextsUpTo(_)
TextsUpTo(n) ==
    IF n = 0 THEN {<<>>}
    ELSE LET shorter == TextsUpTo(n - 1)
         IN  shorter \cup {Append(t, c) : t \in {u \in shorter : Len(u) = n - 1},
                                          c \in TextAlphabet}

\* title variants: None, "" and a title
TitleChoices(t) == {None, Some(<<>>), Some(t)}
AnimeChoices ==
    {AnimeData(21, None, romaji, english, native) :
        romaji \in {<<>>, T_ONE_PIECE},
        english \in TitleChoices(T_OnePiece),
        native \in TitleChoices(T_W)}

\* datetime.now(), as far as get_current_season reads it
Years == {2024, 2025}
Months == 1..12

\* get_current_season as it would be with the seasons of the weather
get_current_season_december_winter(today) ==
    [year |-> today.year,
     season |-> IF today.month \in {12, 1, 2} THEN "WINTER"
                ELSE IF today.month \in {3, 4, 5} THEN "SPRING"
                ELSE IF today.month \in {6, 7, 8} THEN "SUMMER"
                ELSE "FALL"]

get_current_season(today) ==
    [year |-> today.year,
     season |-> IF today.month \in {1, 2, 3} THEN "WINTER"
                ELSE IF today.month \in {4, 5, 6} THEN "SPRING"
                ELSE IF today.month \in {7, 8, 9} THEN "SUMMER"
                ELSE "FALL"]

\* link_entity past the cache: texts (one of them an alias), candidates with
\* one title each or several, two of them with the same title, and lists of
\* one or two candidates
T_NarutoBang == <<"N", "a", "r", "u", "t", "o", "!">>
A_BorutoMovie == AnimeData(20993, Some(28755), T_Boruto, None, None)
A_Naruto == AnimeData(20, Some(20), <<>>, Some(T_NarutoBang), None)
LinkTexts == {T_Naruto, T_NarutoBang, T_op}
Candidates == {A_Boruto, A_BorutoMovie, A_OnePiece, A_Naruto}
CandidateLists ==
    {<<a>> : a \in Candidates} \cup {<<a, b>> : a \in Candidates, b \in Candidates}

\* _parse_anime: media whose tags, relations, characters and staff have no
\* entry, ten entries or more than ten; entry i carries i
MaxEntries == 11
EntryCounts == {0, 10, MaxEntries}
NameOf(i) == [j \in 1..i |-> "w"]
TagEntry(i) == JObj([name |-> JStr(NameOf(i)), rank |-> JInt(i)])
RelationEdge(i) ==
    JObj([relationType |-> JStr(T_W),
          node |-> JObj([id |-> JInt(i), title |-> JObj([romaji |-> JStr(NameOf(i))])])])
PersonEdge(i) ==
    JObj([role |-> JStr(T_W),
          node |-> JObj([name |-> JObj([full |-> JStr(NameOf(i))]),
                         image |-> JObj([medium |-> JStr(T_W)])])])
Entries(n, Entry(_)) == JList([i \in 1..n |-> Entry(i)])
\* the second edge has no node
PersonEdgesWithGap(n) ==
    JList([i \in 1..n |-> IF i = 2 THEN JObj([role |-> JStr(T_W), node |-> JNull])
                          ELSE PersonEdge(i)])
ListedMedia ==
    {JObj([id |-> JInt(21),
           tags |-> Entries(nt, TagEntry),
           relations |-> JObj([edges |-> Entries(nr, RelationEdge)]),
           characters |-> JObj([edges |-> c]),
           staff |-> JObj([edges |-> Entries(ns, PersonEdge)])]) :
        nt \in EntryCounts, nr \in EntryCounts, ns \in EntryCounts,
        c \in {Entries(n, PersonEdge) : n \in EntryCounts}
                \cup {PersonEdgesWithGap(MaxEntries)}}

FunctionInputs ==
    {[fn |-> "_normalize_text", text |-> t] : t \in TextsUpTo(MaxTextLen)}
        \cup {[fn |-> "_parse_anime", media |-> m] : m \in ListedMedia}
        \cup {[fn |-> "link_entity", text |-> t, results |-> r,
                min_confidence |-> c.min_confidence] :
                 t \in LinkTexts, r \in CandidateLists, c \in Configs}
        \cup {[fn |-> "get_best_title", anime |-> a] : a \in AnimeChoices}
        \cup {[fn |-> "get_current_season", today |-> [year |-> y, month |-> m]] :
                 y \in Years, m \in Months}

(***************************************************************************)
(* The dashboard tasks (src/src/services/tasks.py): sync_youtube_videos,   *)
(* sync_youtube_metrics, fetch_anime_research and train_playbook, each     *)
(* under the Lock of its task name, called from the threads of the         *)
(* dashboard.                                                              *)
(***************************************************************************)
Tasks == {"sync_videos", "sync_metrics", "fetch_research", "train_playbook"}
Threads == {1, 2, 3}
\* most invocations in one behaviour
MaxInvocations == 3

\* Lock.acquire(blocking=False) as it would be if it always succeeded
acquire_always(locks, task_name) ==
    [acquired |-> TRUE, locks |-> [locks EXCEPT ![task_name] = TRUE]]

\* _task_locks[task_name].acquire(blocking=False): atomic; False when locked
acquire(locks, task_name) ==
    IF locks[task_name] THEN [acquired |-> FALSE, locks |-> locks]
    ELSE [acquired |-> TRUE, locks |-> [locks EXCEPT ![task_name] = TRUE]]

\* the finally block as it would be with no release
release_never(locks, task_name) == locks

\* _task_locks[task_name].release()
release(locks, task_name) == [locks EXCEPT ![task_name] = FALSE]

\* is_task_running
is_task_running(locks, task_name) ==
    IF task_name \in DOMAIN locks THEN locks[task_name] ELSE FALSE

\* how the body of a task can end past create_run: the task is done; an
\* early "return result" (no OAuth for the two sync tasks, too little data
\* for train_playbook); an exception the inner try catches; an exception
\* that escapes (from the handler's fail_run, or from the commit of
\* session_scope)
Endings(task_name) ==
    {"success", "caught", "escapes"}
        \cup (IF task_name = "fetch_research" THEN {} ELSE {"early_return"})

\* a thread outside every task function
NotInvoked ==
    [pc |-> "idle", task_name |-> "", success |-> FALSE, error_message |-> FALSE,
     run_log_id |-> None, session |-> FALSE, exit |-> ""]
\* TaskResult(task_name=task_name, started_at=datetime.now())
TaskResult(task_name) == [NotInvoked EXCEPT !.pc = "acquire", !.task_name = task_name]

(***************************************************************************)
(* Instances side by side: two RSSFeedParser instances next to the         *)
(* module-level RSS_SOURCES, and the two EntityLinker instances on the     *)
(* class-level KNOWN_ALIASES.                                              *)
(***************************************************************************)
Parsers == {"parser1", "parser2"}
ObjectNames == {"RSS_SOURCES"} \cup Parsers
\* the dict objects when the module has been imported: RSS_SOURCES only
ObjectsInitial ==
    [o \in ObjectNames |-> IF o = "RSS_SOURCES" THEN Some(RSS_SOURCES) ELSE None]

\* RSS_SOURCES.copy() as it would be with no copy: the same object
copy_same_object(objs, ref, new) == [objects |-> objs, ref |-> ref]

\* dict.copy(): a new dict object, here under the name "new", with the
\* items of the object "ref".  The copy is shallow, and add_source and
\* remove_source put and delete items but never write into one.
copy(objs, ref, new) ==
    [objects |-> [objs EXCEPT ![new] = objs[ref]], ref |-> new]

\* get_aliases: a copy of the table self.KNOWN_ALIASES is
get_aliases(aliases) == aliases

\* the calls made on the instances side by side: a score add_source takes
\* and one it refuses; texts with an alias of the table or an added alias in
\* them; texts that are such an alias
SharedScores == {100, 101}
SharedExtractTexts == {T_AotIsBack, T_AnXyzEp}
SharedLinkTexts == {T_aot, T_xyz, T_KOn}
\* most link_entity calls on the linkers side by side in one behaviour
MaxSharedLinks == 1

VARIABLES
    sources,        \* RSSFeedParser.sources, the registry of the parser
    fret,           \* the feed call that has just ended: its arguments, what
                    \* its requests met and what it gave back; "idle" between
                    \* calls
    KNOWN_ALIASES,  \* EntityLinker.KNOWN_ALIASES, the class-level alias table
    cache_file,     \* entity_cache.json: None when the file does not exist
    linkers,        \* the two live EntityLinker instances on one cache
                    \* directory: min_confidence, cache_ttl, _cache
    now,            \* the wall clock, in hours
    lret,           \* the link_entity call that has just ended; "idle"
                    \* between calls
    last,           \* per linker, its previous operation, if that was a
                    \* link_entity with use_cache=True: the text and the result
    written,        \* history: per cache key, when link_entity last wrote its
                    \* entry, with no clear_cache since
    seen,           \* history: per linker, the part of "written" that was
                    \* younger than the linker's TTL when it was constructed
    ncalls,         \* history: link_entity calls so far
    nadmin,         \* history: constructions and clear_cache calls since Init
    clock,          \* time.time(), as the AniList client reads it
    _last_request_time, \* AniListClient._last_request_time
    cret,           \* the client call that has just ended; "idle" between
                    \* calls
    issued,         \* history: when the client's previous request went out
    nreq,           \* history: requests of the client so far
    alias_keys,     \* the keys of KNOWN_ALIASES in the order the dict holds
                    \* them
    eret,           \* the extract_entities / extract_and_link call that has
                    \* just ended; "idle" between calls
    added,          \* history: the add_alias calls so far, as (alias,
                    \* full_name) pairs
    nextract,       \* history: extraction calls so far
    input,          \* the argument a function is applied to
    output,         \* what the function returned, each time it was applied
    _task_locks,    \* services.tasks._task_locks: per task name, whether its
                    \* Lock is locked
    threads,        \* per thread of the dashboard, the task function it is
                    \* in, where it is in it, and the TaskResult so far
    run_logs,       \* the number of RunLog rows in the database
    ninvoked,       \* history: task invocations so far
    objects,        \* the registry dicts of the process, by the name of the
                    \* object: the module-level RSS_SOURCES and the dict each
                    \* live parser made for itself
    parser_sources, \* per RSSFeedParser instance, the object its "sources"
                    \* attribute is; None before the instance is constructed
    adders          \* history: for each add_alias call of "added", the
                    \* linker it was called on

feedVars == <<sources, fret>>
linkerVars == <<KNOWN_ALIASES, cache_file, linkers, now, lret, last, written,
                seen, ncalls, nadmin>>
clientVars == <<clock, _last_request_time, cret, issued, nreq>>
extractVars == <<alias_keys, eret, added, nextract>>
pureVars == <<input, output>>
taskVars == <<_task_locks, threads, run_logs, ninvoked>>
shareVars == <<objects, parser_sources, adders>>
vars == <<sources, fret, KNOWN_ALIASES, cache_file, linkers, now, lret, last,
          written, seen, ncalls, nadmin, clock, _last_request_time, cret,
          issued, nreq, alias_keys, eret, added, nextract, input, output,
          _task_locks, threads, run_logs, ninvoked, objects, parser_sources,
          adders>>

Idle == [op |-> "idle"]
NoArgument == [fn |-> "none"]
Linkers == {1, 2}
\* EntityLinker.__init__ at the time "at": the file is read once, here
EntityLinker_init(file, at, min_confidence, cache_ttl_hours) ==
    [min_confidence |-> min_confidence, cache_ttl |-> cache_ttl_hours,
     cache |-> _load_cache(file, at, cache_ttl_hours)]

Keys == {_get_cache_key(t) : t \in Texts}
NeverWritten == [k \in Keys |-> None]

\* a parser as constructed, with or without custom_sources; the linkers are
\* at rest
FeedInit ==
    /\ \E custom \in CustomSourcesChoices : sources = RSSFeedParser_init(custom)
    /\ fret = Idle
    /\ KNOWN_ALIASES = KNOWN_ALIASES_initial
    /\ cache_file = None
    /\ linkers = [i \in Linkers |->
                     EntityLinker_init(None, 0, FirstConfig[i].min_confidence,
                                       FirstConfig[i].cache_ttl_hours)]
    /\ now = 0
    /\ lret = Idle
    /\ last = [i \in Linkers |-> None]
    /\ written = NeverWritten
    /\ seen = [i \in Linkers |-> NeverWritten]
    /\ ncalls = 0
    /\ nadmin = 0
    /\ clock = 2 * RATE_LIMIT_DELAY
    /\ _last_request_time = 0
    /\ cret = Idle
    /\ issued = None
    /\ nreq = 0
    /\ alias_keys = KNOWN_ALIASES_keys
    /\ eret = Idle
    /\ added = <<>>
    /\ nextract = 0
    /\ input = NoArgument
    /\ output = None
    /\ _task_locks = [task_name \in Tasks |-> FALSE]
    /\ threads = [t \in Threads |-> NotInvoked]
    /\ run_logs = 0
    /\ ninvoked = 0
    /\ objects = ObjectsInitial
    /\ parser_sources = [p \in Parsers |-> None]
    /\ adders = <<>>

\* two linkers constructed on an empty cache directory; the parser has the
\* default registry and is at rest
LinkerInit ==
    /\ sources = RSSFeedParser_init(None)
    /\ fret = Idle
    /\ KNOWN_ALIASES = KNOWN_ALIASES_initial
    /\ cache_file = None
    /\ linkers = [i \in Linkers |->
                     EntityLinker_init(None, 0, FirstConfig[i].min_confidence,
                                       FirstConfig[i].cache_ttl_hours)]
    /\ now = 0
    /\ lret = Idle
    /\ last = [i \in Linkers |-> None]
    /\ written = NeverWritten
    /\ seen = [i \in Linkers |-> NeverWritten]
    /\ ncalls = 0
    /\ nadmin = 0
    /\ clock = 2 * RATE_LIMIT_DELAY
    /\ _last_request_time = 0
    /\ cret = Idle
    /\ issued = None
    /\ nreq = 0
    /\ alias_keys = KNOWN_ALIASES_keys
    /\ eret = Idle
    /\ added = <<>>
    /\ nextract = 0
    /\ input = NoArgument
    /\ output = None
    /\ _task_locks = [task_name \in Tasks |-> FALSE]
    /\ threads = [t \in Threads |-> NotInvoked]
    /\ run_logs = 0
    /\ ninvoked = 0
    /\ objects = ObjectsInitial
    /\ parser_sources = [p \in Parsers |-> None]
    /\ adders = <<>>

\* a client as constructed, some time after the epoch; the parser and the
\* linkers are at rest
ClientInit ==
    /\ sources = RSSFeedParser_init(None)
    /\ fret = Idle
    /\ KNOWN_ALIASES = KNOWN_ALIASES_initial
    /\ cache_file = None
    /\ linkers = [i \in Linkers |->
                     EntityLinker_init(None, 0, FirstConfig[i].min_confidence,
                                       FirstConfig[i].cache_ttl_hours)]
    /\ now = 0
    /\ lret = Idle
    /\ last = [i \in Linkers |-> None]
    /\ written = NeverWritten
    /\ seen = [i \in Linkers |-> NeverWritten]
    /\ ncalls = 0
    /\ nadmin = 0
    /\ clock = 2 * RATE_LIMIT_DELAY
    /\ _last_request_time = 0
    /\ cret = Idle
    /\ issued = None
    /\ nreq = 0
    /\ alias_keys = KNOWN_ALIASES_keys
    /\ eret = Idle
    /\ added = <<>>
    /\ nextract = 0
    /\ input = NoArgument
    /\ output = None
    /\ _task_locks = [task_name \in Tasks |-> FALSE]
    /\ threads = [t \in Threads |-> NotInvoked]
    /\ run_logs = 0
    /\ ninvoked = 0
    /\ objects = ObjectsInitial
    /\ parser_sources = [p \in Parsers |-> None]
    /\ adders = <<>>

(***************************************************************************)
(* The feed operations.                                                    *)
(***************************************************************************)
FetchSource ==
    /\ fret = Idle
    /\ \E k \in FetchKeys, days \in Days, limit \in Limits :
         \E outcome \in IF WillRequest(sources, k) THEN OutcomesUpTo(MaxFeedLen)
                        ELSE {NoRequest} :
            fret' = [op |-> "fetch_source", key |-> k, days |-> days,
                     limit |-> limit, outcome |-> outcome,
                     res |-> fetch_source(sources, k, days, limit, outcome)]
    /\ UNCHANGED sources
    /\ UNCHANGED <<linkerVars, clientVars, extractVars, pureVars, taskVars, shareVars>>

FetchAllSources ==
    /\ fret = Idle
    /\ \E days \in Days, limit \in BatchLimits, arg \in SourcesArgs :
         \E outcomes \in BatchOutcomes(sources,
                             EnabledSources(sources, SourceKeys(sources, arg)),
                             1, MaxBatchItems) :
            fret' = [op |-> "fetch_all_sources", days |-> days, limit |-> limit,
                     sources_arg |-> arg, outcomes |-> outcomes,
                     res |-> fetch_all_sources(sources, days, limit, arg, outcomes)]
    /\ UNCHANGED sources
    /\ UNCHANGED <<linkerVars, clientVars, extractVars, pureVars, taskVars, shareVars>>

\* add_source as it would be with no upper end of the range
add_source_no_upper_end(reg, key, name, url, reliability_score) ==
    IF reliability_score < 0
    THEN [value |-> FALSE, reg |-> reg]
    ELSE [value |-> TRUE,
          reg |-> DictSet(reg, SourceEntry(key, Some(name), Some(url),
                                           Some(reliability_score), None))]

\* add_source: the new entry has no "enabled" key
add_source(reg, key, name, url, reliability_score) ==
    IF reliability_score < 0 \/ reliability_score > 100
    THEN [value |-> FALSE, reg |-> reg]
    ELSE [value |-> TRUE,
          reg |-> DictSet(reg, SourceEntry(key, Some(name), Some(url),
                                           Some(reliability_score), None))]

\* the scores add_source is called with: the two ends of the range and the
\* hundredths next to them
AddScores == {0 - 1, 0, 100, 101}

AddSource ==
    /\ fret = Idle
    /\ \E score \in AddScores :
         LET r == add_source(sources, "fake_broken_feed", "Fake Broken Feed",
                             "unreachable_url", score)
         IN  /\ sources' = r.reg
             /\ fret' = [op |-> "add_source", key |-> "fake_broken_feed",
                         name |-> "Fake Broken Feed", url |-> "unreachable_url",
                         reliability_score |-> score, before |-> sources,
                         value |-> r.value]
    /\ UNCHANGED <<linkerVars, clientVars, extractVars, pureVars, taskVars, shareVars>>

remove_source(reg, key) ==
    IF DictHas(reg, key) THEN [value |-> TRUE, reg |-> DictDel(reg, key)]
    ELSE [value |-> FALSE, reg |-> reg]

RemoveKeys == {"fake_broken_feed", "mal_news", "nope"}

RemoveSource ==
    /\ fret = Idle
    /\ \E k \in RemoveKeys :
         LET r == remove_source(sources, k)
         IN  /\ sources' = r.reg
             /\ fret' = [op |-> "remove_source", key |-> k, value |-> r.value]
    /\ UNCHANGED <<linkerVars, clientVars, extractVars, pureVars, taskVars, shareVars>>

\* the caller takes the result and goes on
FeedContinue ==
    /\ fret # Idle
    /\ fret' = Idle
    /\ UNCHANGED sources
    /\ UNCHANGED <<linkerVars, clientVars, extractVars, pureVars, taskVars, shareVars>>

FeedNext ==
    \/ FetchSource
    \/ FetchAllSources
    \/ AddSource
    \/ RemoveSource
    \/ FeedContinue

SpecFeed == FeedInit /\ [][FeedNext]_vars

(***************************************************************************)
(* The linker operations.                                                  *)
(***************************************************************************)
\* a new EntityLinker (a new process, or a new object in the same process)
\* takes the place of instance i
Construct(i) ==
    /\ lret = Idle
    /\ nadmin < MaxAdmin
    /\ \E c \in Configs :
         /\ linkers' = [linkers EXCEPT ![i] =
                           EntityLinker_init(cache_file, now, c.min_confidence,
                                             c.cache_ttl_hours)]
         /\ seen' = [seen EXCEPT ![i] =
                        [k \in Keys |->
                            IF ~IsNone(written[k])
                               /\ now - Val(written[k]) < c.cache_ttl_hours
                            THEN written[k] ELSE None]]
    /\ last' = [last EXCEPT ![i] = None]
    /\ lret' = Idle
    /\ nadmin' = nadmin + 1
    /\ UNCHANGED <<KNOWN_ALIASES, cache_file, now, written, ncalls>>
    /\ UNCHANGED <<feedVars, clientVars, extractVars, pureVars, taskVars, shareVars>>

\* link_entity(text, use_cache).  With no entry under the key, use_cache
\* makes no difference to what the handler does, and the call is tried with
\* the default only.
LinkEntity(i) ==
    /\ lret = Idle
    /\ ncalls < MaxCalls
    /\ \E text \in Texts :
         LET key == _get_cache_key(text)
             present == key \in DOMAIN linkers[i].cache
         IN  \E use_cache \in IF present THEN BOOLEAN ELSE {TRUE} :
             \E results \in IF use_cache /\ present THEN {<<>>} ELSE SearchResults :
               \E r \in {link_entity(linkers[i], KNOWN_ALIASES, text, use_cache,
                                     results, now)} :
                   /\ linkers' = [linkers EXCEPT ![i].cache = r.cache]
                   /\ cache_file' = IF r.saved THEN Some(r.cache) ELSE cache_file
                   /\ lret' = [op |-> "link_entity", linker |-> i, text |-> text,
                               use_cache |-> use_cache,
                               min_confidence |-> linkers[i].min_confidence,
                               results |-> IF r.catalog_calls = 0 THEN None
                                           ELSE Some(results),
                               entity |-> r.entity,
                               catalog_calls |-> r.catalog_calls,
                               at |-> now,
                               hit_cached_at |->
                                   IF r.catalog_calls = 0
                                   THEN Some(linkers[i].cache[key].cached_at)
                                   ELSE None,
                               prior |-> last[i]]
                   /\ last' = [last EXCEPT ![i] =
                                  IF use_cache
                                  THEN Some([text |-> text, entity |-> r.entity])
                                  ELSE None]
                   /\ written' = IF r.saved
                                 THEN [written EXCEPT ![key] = Some(now)]
                                 ELSE written
    /\ ncalls' = ncalls + 1
    /\ UNCHANGED <<KNOWN_ALIASES, now, seen, nadmin>>
    /\ UNCHANGED <<feedVars, clientVars, extractVars, pureVars, taskVars, shareVars>>

\* clear_cache: the memory of the instance and the file
ClearCache(i) ==
    /\ lret = Idle
    /\ nadmin < MaxAdmin
    /\ linkers' = [linkers EXCEPT ![i].cache = EmptyCache]
    /\ cache_file' = None
    /\ last' = [last EXCEPT ![i] = None]
    /\ written' = NeverWritten
    /\ seen' = [j \in Linkers |-> NeverWritten]
    /\ lret' = Idle
    /\ nadmin' = nadmin + 1
    /\ UNCHANGED <<KNOWN_ALIASES, now, ncalls>>
    /\ UNCHANGED <<feedVars, clientVars, extractVars, pureVars, taskVars, shareVars>>

\* an hour passes
Tick ==
    /\ lret = Idle
    /\ now < MaxClock
    /\ now' = now + 1
    /\ UNCHANGED <<KNOWN_ALIASES, cache_file, linkers, lret, last, written,
                   seen, ncalls, nadmin>>
    /\ UNCHANGED <<feedVars, clientVars, extractVars, pureVars, taskVars, shareVars>>

\* the caller takes the entity and goes on
LinkerContinue ==
    /\ lret # Idle
    /\ lret' = Idle
    /\ UNCHANGED <<KNOWN_ALIASES, cache_file, linkers, now, last, written,
                   seen, ncalls, nadmin>>
    /\ UNCHANGED <<feedVars, clientVars, extractVars, pureVars, taskVars, shareVars>>

LinkerNext ==
    \/ \E i \in Linkers : Construct(i)
    \/ \E i \in Linkers : LinkEntity(i)
    \/ \E i \in Linkers : ClearCache(i)
    \/ Tick
    \/ LinkerContinue

SpecLinker == LinkerInit /\ [][LinkerNext]_vars

(***************************************************************************)
(* The AniList client operations.  Time is in tenths of a second.          *)
(***************************************************************************)
\* every endpoint goes through _execute_query: the limiter, then one request
ClientCall ==
    /\ cret = Idle
    /\ nreq < MaxRequests
    /\ \E endpoint \in Endpoints, over \in Oversleep, took \in Durations :
         \E outcome \in RemoteOutcomes(endpoint) :
           \E rl \in {_rate_limit(clock, _last_request_time, over)} :
             /\ _last_request_time' = rl.last_request_time
             /\ clock' = rl.last_request_time + took
             /\ issued' = Some(rl.last_request_time)
             /\ cret' = [op |-> endpoint, outcome |-> outcome,
                         arrived_at |-> clock, slept |-> rl.slept,
                         issued_at |-> rl.last_request_time,
                         requests |-> 1, previous |-> issued,
                         res |-> CallEndpoint(endpoint, outcome)]
    /\ nreq' = nreq + 1
    /\ UNCHANGED <<feedVars, linkerVars, extractVars, pureVars, taskVars, shareVars>>

\* the caller does something else for a while
ClientWait ==
    /\ cret = Idle
    /\ clock < MaxTime
    /\ \E d \in Waits : clock' = clock + d
    /\ UNCHANGED <<_last_request_time, cret, issued, nreq>>
    /\ UNCHANGED <<feedVars, linkerVars, extractVars, pureVars, taskVars, shareVars>>

\* the caller takes the result and goes on
ClientContinue ==
    /\ cret # Idle
    /\ cret' = Idle
    /\ UNCHANGED <<clock, _last_request_time, issued, nreq>>
    /\ UNCHANGED <<feedVars, linkerVars, extractVars, pureVars, taskVars, shareVars>>

ClientNext ==
    \/ ClientCall
    \/ ClientWait
    \/ ClientContinue

SpecClient == ClientInit /\ [][ClientNext]_vars

(***************************************************************************)
(* The extraction operations, on linker 1 and the class-level alias table. *)
(* The history variables of the link_entity properties are left alone.     *)
(***************************************************************************)
ExtractInit ==
    /\ sources = RSSFeedParser_init(None)
    /\ fret = Idle
    /\ KNOWN_ALIASES = KNOWN_ALIASES_initial
    /\ cache_file = None
    /\ linkers = [i \in Linkers |->
                     EntityLinker_init(None, 0, FirstConfig[i].min_confidence,
                                       FirstConfig[i].cache_ttl_hours)]
    /\ now = 0
    /\ lret = Idle
    /\ last = [i \in Linkers |-> None]
    /\ written = NeverWritten
    /\ seen = [i \in Linkers |-> NeverWritten]
    /\ ncalls = 0
    /\ nadmin = 0
    /\ clock = 2 * RATE_LIMIT_DELAY
    /\ _last_request_time = 0
    /\ cret = Idle
    /\ issued = None
    /\ nreq = 0
    /\ alias_keys = KNOWN_ALIASES_keys
    /\ eret = Idle
    /\ added = <<>>
    /\ nextract = 0
    /\ input = NoArgument
    /\ output = None
    /\ _task_locks = [task_name \in Tasks |-> FALSE]
    /\ threads = [t \in Threads |-> NotInvoked]
    /\ run_logs = 0
    /\ ninvoked = 0
    /\ objects = ObjectsInitial
    /\ parser_sources = [p \in Parsers |-> None]
    /\ adders = <<>>

AddAlias ==
    /\ eret = Idle
    /\ Len(added) < MaxAliases
    /\ \E a \in AliasInputs :
         /\ KNOWN_ALIASES' = add_alias(KNOWN_ALIASES, a.alias, a.full_name)
         /\ alias_keys' = add_alias_keys(alias_keys, a.alias)
         /\ added' = Append(added, a)
    /\ UNCHANGED <<eret, nextract>>
    /\ UNCHANGED <<cache_file, linkers, now, lret, last, written, seen, ncalls,
                   nadmin>>
    /\ UNCHANGED <<feedVars, clientVars, pureVars, taskVars, shareVars>>

ExtractEntities ==
    /\ eret = Idle
    /\ nextract < MaxExtracts
    /\ \E text \in ExtractTexts :
         eret' = [op |-> "extract_entities", text |-> text,
                  value |-> extract_entities(KNOWN_ALIASES, alias_keys, text)]
    /\ nextract' = nextract + 1
    /\ UNCHANGED <<alias_keys, added>>
    /\ UNCHANGED linkerVars
    /\ UNCHANGED <<feedVars, clientVars, pureVars, taskVars, shareVars>>

ExtractAndLink ==
    /\ eret = Idle
    /\ nextract < MaxExtracts
    /\ \E text \in ExtractTexts, catalog \in Catalogs, use_cache \in BOOLEAN :
         \E r \in {extract_and_link(linkers[1], KNOWN_ALIASES, alias_keys, text,
                                    use_cache, catalog, now)} :
           /\ linkers' = [linkers EXCEPT ![1].cache = r.cache]
           /\ cache_file' = IF r.saved THEN Some(r.cache) ELSE cache_file
           /\ eret' = [op |-> "extract_and_link", text |-> text,
                       catalog |-> catalog, use_cache |-> use_cache,
                       cached |-> DOMAIN linkers[1].cache,
                       value |-> r.value]
    /\ nextract' = nextract + 1
    /\ UNCHANGED <<alias_keys, added>>
    /\ UNCHANGED <<KNOWN_ALIASES, now, lret, last, written, seen, ncalls, nadmin>>
    /\ UNCHANGED <<feedVars, clientVars, pureVars, taskVars, shareVars>>

\* link_entity(text, use_cache=False) on linker 1: query is the text the
\* catalog is searched for
LinkAlias ==
    /\ eret = Idle
    /\ nextract < MaxExtracts
    /\ \E text \in AliasTexts, catalog \in Catalogs :
         \E query \in {_resolve_alias(KNOWN_ALIASES, text)} :
         \E r \in {link_entity(linkers[1], KNOWN_ALIASES, text, FALSE,
                               Search(catalog, query), now)} :
           /\ linkers' = [linkers EXCEPT ![1].cache = r.cache]
           /\ cache_file' = IF r.saved THEN Some(r.cache) ELSE cache_file
           /\ eret' = [op |-> "link_entity", text |-> text, catalog |-> catalog,
                       query |-> query, value |-> r.entity]
    /\ nextract' = nextract + 1
    /\ UNCHANGED <<alias_keys, added>>
    /\ UNCHANGED <<KNOWN_ALIASES, now, lret, last, written, seen, ncalls, nadmin>>
    /\ UNCHANGED <<feedVars, clientVars, pureVars, taskVars, shareVars>>

\* the caller takes the result and goes on
ExtractContinue ==
    /\ eret # Idle
    /\ eret' = Idle
    /\ UNCHANGED <<alias_keys, added, nextract>>
    /\ UNCHANGED linkerVars
    /\ UNCHANGED <<feedVars, clientVars, pureVars, taskVars, shareVars>>

ExtractNext ==
    \/ AddAlias
    \/ ExtractEntities
    \/ ExtractAndLink
    \/ LinkAlias
    \/ ExtractContinue

SpecExtract == ExtractInit /\ [][ExtractNext]_vars

(***************************************************************************)
(* The functions applied to their arguments; output holds the results, one *)
(* after the other.                                                        *)
(***************************************************************************)
FunctionsInit ==
    /\ sources = RSSFeedParser_init(None)
    /\ fret = Idle
    /\ KNOWN_ALIASES = KNOWN_ALIASES_initial
    /\ cache_file = None
    /\ linkers = [i \in Linkers |->
                     EntityLinker_init(None, 0, FirstConfig[i].min_confidence,
                                       FirstConfig[i].cache_ttl_hours)]
    /\ now = 0
    /\ lret = Idle
    /\ last = [i \in Linkers |-> None]
    /\ written = NeverWritten
    /\ seen = [i \in Linkers |-> NeverWritten]
    /\ ncalls = 0
    /\ nadmin = 0
    /\ clock = 2 * RATE_LIMIT_DELAY
    /\ _last_request_time = 0
    /\ cret = Idle
    /\ issued = None
    /\ nreq = 0
    /\ alias_keys = KNOWN_ALIASES_keys
    /\ eret = Idle
    /\ added = <<>>
    /\ nextract = 0
    /\ input \in FunctionInputs
    /\ output = <<>>
    /\ _task_locks = [task_name \in Tasks |-> FALSE]
    /\ threads = [t \in Threads |-> NotInvoked]
    /\ run_logs = 0
    /\ ninvoked = 0
    /\ objects = ObjectsInitial
    /\ parser_sources = [p \in Parsers |-> None]
    /\ adders = <<>>

\* _normalize_text of the text, then of what it returned
NormalizeText ==
    /\ input.fn = "_normalize_text"
    /\ Len(output) < 2
    /\ output' = Append(output, _normalize_text(IF output = <<>> THEN input.text
                                                ELSE output[Len(output)]))
    /\ UNCHANGED input
    /\ UNCHANGED <<feedVars, linkerVars, clientVars, extractVars, taskVars, shareVars>>

GetBestTitle ==
    /\ input.fn = "get_best_title"
    /\ output = <<>>
    /\ output' = <<get_best_title(input.anime)>>
    /\ UNCHANGED input
    /\ UNCHANGED <<feedVars, linkerVars, clientVars, extractVars, taskVars, shareVars>>

GetCurrentSeason ==
    /\ input.fn = "get_current_season"
    /\ output = <<>>
    /\ output' = <<get_current_season(input.today)>>
    /\ UNCHANGED input
    /\ UNCHANGED <<feedVars, linkerVars, clientVars, extractVars, taskVars, shareVars>>

\* link_entity(text, use_cache=False) of a linker whose catalog answers with
\* the results
LinkEntityMiss ==
    /\ input.fn = "link_entity"
    /\ output = <<>>
    /\ \E r \in {link_entity([min_confidence |-> input.min_confidence,
                               cache_ttl |-> 1, cache |-> EmptyCache],
                              KNOWN_ALIASES, input.text, FALSE, input.results,
                              now)} :
         output' = <<r.entity>>
    /\ UNCHANGED input
    /\ UNCHANGED <<feedVars, linkerVars, clientVars, extractVars, taskVars, shareVars>>

\* _parse_anime of a media of the response
ParseAnime ==
    /\ input.fn = "_parse_anime"
    /\ output = <<>>
    /\ \E r \in {_parse_anime(input.media)} :
         output' = <<[raised |-> r.raised,
                      tags |-> ParsedTags(input.media),
                      relations |-> ParsedRelations(input.media),
                      characters |-> ParsedPeople(input.media, "characters"),
                      staff |-> ParsedPeople(input.media, "staff")]>>
    /\ UNCHANGED input
    /\ UNCHANGED <<feedVars, linkerVars, clientVars, extractVars, taskVars, shareVars>>

FunctionsNext ==
    \/ LinkEntityMiss
    \/ ParseAnime
    \/ NormalizeText
    \/ GetBestTitle
    \/ GetCurrentSeason

SpecFunctions == FunctionsInit /\ [][FunctionsNext]_vars

(***************************************************************************)
(* The task functions, one step of one thread at a time.  A thread is at   *)
(* "acquire" before the acquire, at "start" and "work" inside the outer    *)
(* try, at "finally" in the finally block, and at "done" when the function *)
(* has returned or raised.                                                 *)
(***************************************************************************)
TasksInit ==
    /\ sources = RSSFeedParser_init(None)
    /\ fret = Idle
    /\ KNOWN_ALIASES = KNOWN_ALIASES_initial
    /\ cache_file = None
    /\ linkers = [i \in Linkers |->
                     EntityLinker_init(None, 0, FirstConfig[i].min_confidence,
                                       FirstConfig[i].cache_ttl_hours)]
    /\ now = 0
    /\ lret = Idle
    /\ last = [i \in Linkers |-> None]
    /\ written = NeverWritten
    /\ seen = [i \in Linkers |-> NeverWritten]
    /\ ncalls = 0
    /\ nadmin = 0
    /\ clock = 2 * RATE_LIMIT_DELAY
    /\ _last_request_time = 0
    /\ cret = Idle
    /\ issued = None
    /\ nreq = 0
    /\ alias_keys = KNOWN_ALIASES_keys
    /\ eret = Idle
    /\ added = <<>>
    /\ nextract = 0
    /\ input = NoArgument
    /\ output = None
    /\ _task_locks = [task_name \in Tasks |-> FALSE]
    /\ threads = [t \in Threads |-> NotInvoked]
    /\ run_logs = 0
    /\ ninvoked = 0
    /\ objects = ObjectsInitial
    /\ parser_sources = [p \in Parsers |-> None]
    /\ adders = <<>>

\* a thread calls one of the four task functions
Invoke(t) ==
    /\ threads[t].pc = "idle"
    /\ ninvoked < MaxInvocations
    /\ \E task_name \in Tasks :
         threads' = [threads EXCEPT ![t] = TaskResult(task_name)]
    /\ ninvoked' = ninvoked + 1
    /\ UNCHANGED <<_task_locks, run_logs>>
    /\ UNCHANGED <<feedVars, linkerVars, clientVars, extractVars, pureVars,
                   shareVars>>

\* "if not _task_locks[task_name].acquire(blocking=False): ... return result"
Acquire(t) ==
    /\ threads[t].pc = "acquire"
    /\ \E r \in {acquire(_task_locks, threads[t].task_name)} :
         /\ _task_locks' = r.locks
         /\ threads' = [threads EXCEPT ![t] =
                           IF r.acquired THEN [@ EXCEPT !.pc = "start"]
                           ELSE [@ EXCEPT !.pc = "done", !.error_message = TRUE,
                                          !.exit = "refused"]]
    /\ UNCHANGED <<run_logs, ninvoked>>
    /\ UNCHANGED <<feedVars, linkerVars, clientVars, extractVars, pureVars,
                   shareVars>>

\* the outer try up to the inner try: progress_callback, session_scope,
\* create_run and commit.  Any of them can raise; nothing catches it here.
Start(t) ==
    /\ threads[t].pc = "start"
    /\ \E raises \in {"none", "progress_callback", "session_scope", "create_run"} :
         IF raises = "none"
         THEN /\ run_logs' = run_logs + 1
              /\ threads' = [threads EXCEPT ![t] =
                                [@ EXCEPT !.pc = "work", !.session = TRUE,
                                          !.run_log_id = Some(run_logs + 1)]]
         ELSE /\ run_logs' = run_logs
              /\ threads' = [threads EXCEPT ![t] =
                                [@ EXCEPT !.pc = "finally", !.exit = "raised",
                                          !.session = (raises = "create_run")]]
    /\ UNCHANGED <<_task_locks, ninvoked>>
    /\ UNCHANGED <<feedVars, linkerVars, clientVars, extractVars, pureVars,
                   shareVars>>

\* the inner try and its handler
Work(t) ==
    /\ threads[t].pc = "work"
    /\ \E ending \in Endings(threads[t].task_name) :
         threads' = [threads EXCEPT ![t] =
                        [@ EXCEPT !.pc = "finally",
                                  !.success = (ending = "success"),
                                  !.error_message = (ending \in {"early_return", "caught"}),
                                  !.exit = IF ending = "escapes" THEN "raised"
                                           ELSE "returned"]]
    /\ UNCHANGED <<_task_locks, run_logs, ninvoked>>
    /\ UNCHANGED <<feedVars, linkerVars, clientVars, extractVars, pureVars,
                   shareVars>>

\* the finally block: the times are set, the lock is released; then the
\* function returns its result or the exception goes on to the caller
Finally(t) ==
    /\ threads[t].pc = "finally"
    /\ _task_locks' = release(_task_locks, threads[t].task_name)
    /\ threads' = [threads EXCEPT ![t].pc = "done"]
    /\ UNCHANGED <<run_logs, ninvoked>>
    /\ UNCHANGED <<feedVars, linkerVars, clientVars, extractVars, pureVars,
                   shareVars>>

\* the caller takes the result (or the exception) and goes on
TaskContinue(t) ==
    /\ threads[t].pc = "done"
    /\ threads' = [threads EXCEPT ![t] = NotInvoked]
    /\ UNCHANGED <<_task_locks, run_logs, ninvoked>>
    /\ UNCHANGED <<feedVars, linkerVars, clientVars, extractVars, pureVars,
                   shareVars>>

TasksNext ==
    \/ \E t \in Threads : Invoke(t)
    \/ \E t \in Threads : Acquire(t)
    \/ \E t \in Threads : Start(t)
    \/ \E t \in Threads : Work(t)
    \/ \E t \in Threads : Finally(t)
    \/ \E t \in Threads : TaskContinue(t)

SpecTasks == TasksInit /\ [][TasksNext]_vars

(***************************************************************************)
(* Parsers and linkers side by side.  A call on a parser goes to the dict  *)
(* its "sources" attribute is; a call on a linker reads self.KNOWN_ALIASES,*)
(* which no instance ever assigns, so the lookup ends at the class         *)
(* attribute, the variable KNOWN_ALIASES (with alias_keys).                *)
(***************************************************************************)
SharedInit ==
    /\ sources = RSSFeedParser_init(None)
    /\ fret = Idle
    /\ KNOWN_ALIASES = KNOWN_ALIASES_initial
    /\ cache_file = None
    /\ linkers = [i \in Linkers |->
                     EntityLinker_init(None, 0, FirstConfig[i].min_confidence,
                                       FirstConfig[i].cache_ttl_hours)]
    /\ now = 0
    /\ lret = Idle
    /\ last = [i \in Linkers |-> None]
    /\ written = NeverWritten
    /\ seen = [i \in Linkers |-> NeverWritten]
    /\ ncalls = 0
    /\ nadmin = 0
    /\ clock = 2 * RATE_LIMIT_DELAY
    /\ _last_request_time = 0
    /\ cret = Idle
    /\ issued = None
    /\ nreq = 0
    /\ alias_keys = KNOWN_ALIASES_keys
    /\ eret = Idle
    /\ added = <<>>
    /\ nextract = 0
    /\ input = NoArgument
    /\ output = None
    /\ _task_locks = [task_name \in Tasks |-> FALSE]
    /\ threads = [t \in Threads |-> NotInvoked]
    /\ run_logs = 0
    /\ ninvoked = 0
    /\ objects = ObjectsInitial
    /\ parser_sources = [p \in Parsers |-> None]
    /\ adders = <<>>

AtRest == fret = Idle /\ eret = Idle

\* RSSFeedParser(): self.sources = RSS_SOURCES.copy(), no custom_sources
NewParser(p) ==
    /\ AtRest
    /\ IsNone(parser_sources[p])
    /\ \E c \in {copy(objects, "RSS_SOURCES", p)} :
         /\ objects' = c.objects
         /\ parser_sources' = [parser_sources EXCEPT ![p] = Some(c.ref)]
    /\ UNCHANGED adders
    /\ UNCHANGED <<feedVars, linkerVars, clientVars, extractVars, pureVars,
                   taskVars>>

\* add_source on the parser p
AddSourceOn(p) ==
    /\ AtRest
    /\ ~IsNone(parser_sources[p])
    /\ \E score \in SharedScores :
         \E r \in {add_source(Val(objects[Val(parser_sources[p])]),
                              "fake_broken_feed", "Fake Broken Feed",
                              "unreachable_url", score)} :
           /\ objects' = [objects EXCEPT ![Val(parser_sources[p])] = Some(r.reg)]
           /\ fret' = [op |-> "add_source", on |-> p, key |-> "fake_broken_feed",
                       reliability_score |-> score, before |-> objects,
                       value |-> r.value]
    /\ UNCHANGED <<sources, parser_sources, adders>>
    /\ UNCHANGED <<linkerVars, clientVars, extractVars, pureVars, taskVars>>

\* remove_source on the parser p
RemoveSourceOn(p) ==
    /\ AtRest
    /\ ~IsNone(parser_sources[p])
    /\ \E k \in RemoveKeys :
         \E r \in {remove_source(Val(objects[Val(parser_sources[p])]), k)} :
           /\ objects' = [objects EXCEPT ![Val(parser_sources[p])] = Some(r.reg)]
           /\ fret' = [op |-> "remove_source", on |-> p, key |-> k,
                       before |-> objects, value |-> r.value]
    /\ UNCHANGED <<sources, parser_sources, adders>>
    /\ UNCHANGED <<linkerVars, clientVars, extractVars, pureVars, taskVars>>

\* add_alias on the linker i
AddAliasOn(i) ==
    /\ AtRest
    /\ Len(added) < MaxAliases
    /\ \E a \in AliasInputs :
         /\ KNOWN_ALIASES' = add_alias(KNOWN_ALIASES, a.alias, a.full_name)
         /\ alias_keys' = add_alias_keys(alias_keys, a.alias)
         /\ added' = Append(added, a)
    /\ adders' = Append(adders, i)
    /\ UNCHANGED <<eret, nextract>>
    /\ UNCHANGED <<cache_file, linkers, now, lret, last, written, seen, ncalls,
                   nadmin>>
    /\ UNCHANGED <<objects, parser_sources>>
    /\ UNCHANGED <<feedVars, clientVars, pureVars, taskVars>>

\* get_aliases on the linker i
GetAliasesOn(i) ==
    /\ AtRest
    /\ eret' = [op |-> "get_aliases", on |-> i,
                value |-> get_aliases(KNOWN_ALIASES)]
    /\ UNCHANGED <<alias_keys, added, nextract>>
    /\ UNCHANGED linkerVars
    /\ UNCHANGED <<feedVars, clientVars, pureVars, taskVars, shareVars>>

\* extract_entities on the linker i
ExtractEntitiesOn(i) ==
    /\ AtRest
    /\ \E text \in SharedExtractTexts :
         eret' = [op |-> "extract_entities", on |-> i, text |-> text,
                  value |-> extract_entities(KNOWN_ALIASES, alias_keys, text)]
    /\ UNCHANGED <<alias_keys, added, nextract>>
    /\ UNCHANGED linkerVars
    /\ UNCHANGED <<feedVars, clientVars, pureVars, taskVars, shareVars>>

\* link_entity(text, use_cache=False) on the linker i: query is the text the
\* catalog is searched for
LinkEntityOn(i) ==
    /\ AtRest
    /\ nextract < MaxSharedLinks
    /\ \E text \in SharedLinkTexts, catalog \in Catalogs :
         \E query \in {_resolve_alias(KNOWN_ALIASES, text)} :
         \E r \in {link_entity(linkers[i], KNOWN_ALIASES, text, FALSE,
                               Search(catalog, query), now)} :
           /\ linkers' = [linkers EXCEPT ![i].cache = r.cache]
           /\ cache_file' = IF r.saved THEN Some(r.cache) ELSE cache_file
           /\ eret' = [op |-> "link_entity", on |-> i, text |-> text,
                       catalog |-> catalog, query |-> query, value |-> r.entity]
    /\ nextract' = nextract + 1
    /\ UNCHANGED <<alias_keys, added>>
    /\ UNCHANGED <<KNOWN_ALIASES, now, lret, last, written, seen, ncalls, nadmin>>
    /\ UNCHANGED <<feedVars, clientVars, pureVars, taskVars, shareVars>>

\* the caller takes the result and goes on
SharedContinue ==
    /\ ~AtRest
    /\ fret' = Idle
    /\ eret' = Idle
    /\ UNCHANGED <<sources, alias_keys, added, nextract>>
    /\ UNCHANGED linkerVars
    /\ UNCHANGED <<clientVars, pureVars, taskVars, shareVars>>

SharedNext ==
    \/ \E p \in Parsers : NewParser(p)
    \/ \E p \in Parsers : AddSourceOn(p)
    \/ \E p \in Parsers : RemoveSourceOn(p)
    \/ \E i \in Linkers : AtRest /\ Construct(i)
    \/ \E i \in Linkers : AddAliasOn(i)
    \/ \E i \in Linkers : GetAliasesOn(i)
    \/ \E i \in Linkers : ExtractEntitiesOn(i)
    \/ \E i \in Linkers : LinkEntityOn(i)
    \/ SharedContinue

SpecShared == SharedInit /\ [][SharedNext]_vars

(***************************************************************************)
(* The feed properties.  Each is read off fret, the call that has just     *)
(* ended; sources is the registry the call ran on (no fetch changes it).   *)
(***************************************************************************)
IsFetchSource == fret.op = "fetch_source"
IsFetchAll == fret.op = "fetch_all_sources"

\* the enabled sources of the batch in fret, in the order of the loop
BatchEnabled == EnabledSources(sources, SourceKeys(sources, fret.sources_arg))
\* the positions whose request met a transport or parse error
FailingPositions ==
    {i \in DOMAIN BatchEnabled : fret.outcomes[i].kind \in FailureKinds}
\* the positions whose request was answered
AnsweredPositions ==
    {i \in DOMAIN BatchEnabled : fret.outcomes[i].kind = "ok"}
\* what fetch_source gives the loop at position i
FetchedAt(i) ==
    fetch_source(sources, BatchEnabled[i], fret.days, fret.limit, fret.outcomes[i])
\* the positions that gave the loop at least one item
HealthyPositions ==
    {i \in AnsweredPositions : ~FetchedAt(i).raised /\ FetchedAt(i).value # <<>>}

RECURSIVE Pick(_, _, _)
Pick(seq, S, i) ==
    IF i > Len(seq) THEN <<>>
    ELSE (IF i \in S THEN <<seq[i]>> ELSE <<>>) \o Pick(seq, S, i + 1)

\* the registry without the failing sources, and what the others' requests met
WithoutFailing ==
    SelectSeq(sources, LAMBDA e : e.key \notin {BatchEnabled[i] : i \in FailingPositions})
HealthyOutcomes == Pick(fret.outcomes, DOMAIN BatchEnabled \ FailingPositions, 1)

\* C1's case: a batch over the whole registry in which some enabled sources
\* fail and every other enabled source returns at least one item
C1_Case ==
    /\ IsFetchAll
    /\ fret.sources_arg = None
    /\ FailingPositions # {}
    /\ FailingPositions \cup HealthyPositions = DOMAIN BatchEnabled

\* C1: when some enabled sources fail and every other enabled source returns
\* at least one item, fetch_all_sources returns the list it returns when the
\* failing sources are absent from the registry, failed_sources is the number
\* of failing sources and successful_sources the number of healthy ones.
C1_FailOpen ==
    C1_Case =>
        /\ ~fret.res.raised
        /\ fret.res.items =
               fetch_all_sources(WithoutFailing, fret.days, fret.limit, None,
                                 HealthyOutcomes).items
        /\ fret.res.stats.failed_sources = Cardinality(FailingPositions)
        /\ fret.res.stats.successful_sources = Cardinality(HealthyPositions)

\* C2: fetch_all_sources always returns (items, stats) and never raises,
\* whatever the requests meet and whatever mix of aware, naive and absent
\* dates the items carry; a batch in which no request is answered returns an
\* empty list.
C2_BatchNeverRaises ==
    IsFetchAll =>
        /\ ~fret.res.raised
        /\ AnsweredPositions = {} => fret.res.items = <<>>

\* C3: fetch_source returns a list and never raises, for every key in every
\* registry the constructor and add_source can build and every outcome of
\* the request.
C3_FetchSourceNeverRaises ==
    IsFetchSource => ~fret.res.raised

\* C4: for a source with enabled=False, fetch_source returns [] and issues no
\* request; fetch_all_sources never calls fetch_source for it and, when it
\* returns, has counted it as skipped with status "disabled", not as failed
\* or successful.
C4_DisabledSkipped ==
    /\ (IsFetchSource /\ DictHas(sources, fret.key) /\ ~EnabledOf(sources, fret.key))
          => /\ ~fret.res.raised
             /\ fret.res.value = <<>>
             /\ fret.res.http = 0
    /\ IsFetchAll =>
          LET keys == SourceKeys(sources, fret.sources_arg)
              disabled == {i \in DOMAIN keys : ~EnabledOf(sources, keys[i])}
          IN  /\ \A i \in disabled : keys[i] \notin Range(fret.res.fetched)
              /\ ~fret.res.raised =>
                    /\ fret.res.stats.skipped_sources = Cardinality(disabled)
                    /\ \A i \in disabled :
                          fret.res.stats.source_details[keys[i]].status = "disabled"
                    /\ fret.res.stats.failed_sources
                         + fret.res.stats.successful_sources
                           <= Len(keys) - Cardinality(disabled)

\* C5: failed_sources counts only the enabled sources that gave no item
\* because of an error; a source whose request was answered and parsed, with
\* nothing inside the date window, is not counted as failed and its status is
\* not "failed".
C5_FailedMeansError ==
    (IsFetchAll /\ ~fret.res.raised) =>
        /\ fret.res.stats.failed_sources
             <= Cardinality(DOMAIN BatchEnabled \ AnsweredPositions)
        /\ \A i \in AnsweredPositions :
              (\A j \in DOMAIN BatchEnabled : BatchEnabled[j] = BatchEnabled[i] => j = i)
                 => fret.res.stats.source_details[BatchEnabled[i]].status # "failed"

(***************************************************************************)
(* The linker properties.  Each is read off lret, the link_entity call     *)
(* that has just ended; nothing else runs before lret is taken.            *)
(***************************************************************************)
IsLinkEntity == lret.op = "link_entity"
IsCacheHit == IsLinkEntity /\ lret.catalog_calls = 0
IsCacheMiss == IsLinkEntity /\ lret.catalog_calls = 1

\* the linker's previous operation was link_entity(t, use_cache=True) and
\* this one is link_entity(t, use_cache=True) again
C6_Case ==
    /\ IsLinkEntity
    /\ lret.use_cache
    /\ ~IsNone(lret.prior)
    /\ Val(lret.prior).text = lret.text

\* C6: of two successive link_entity(t, use_cache=True) calls on one linker
\* (other linkers and the clock may run in between), the second returns the
\* same LinkedEntity fields as the first and makes no catalog call, whether
\* the first result was accepted, rejected below the threshold or unmatched.
C6_RepeatAnswersFromCache ==
    C6_Case =>
        /\ lret.entity = Val(lret.prior).entity
        /\ lret.catalog_calls = 0

\* a repeat of a call whose result was rejected below the threshold
C6_Witness ==
    /\ C6_Case
    /\ IsNone(Val(lret.prior).entity.anilist_id)
    /\ Val(lret.prior).entity.confidence.num > 0

\* C7: link_entity answers from the cache only when the entry was written
\* less than cache_ttl_hours before the call, also on an instance that has
\* been alive since before the entry expired.
C7_HitOnlyWithinTTL ==
    IsCacheHit =>
        lret.at - Val(lret.hit_cached_at) < linkers[lret.linker].cache_ttl

Unlinked(e) ==
    /\ IsNone(e.anilist_id)
    /\ IsNone(e.mal_id)
    /\ IsNone(e.anime_data)
    /\ e.match_type = "none"
    /\ e.normalized_title = e.original_text

\* C8: every LinkedEntity link_entity returns, on a miss or on a hit, has
\* anilist_id non-null only if confidence >= the min_confidence of the linker
\* that returns it; when anilist_id is null, match_type is "none" and
\* normalized_title is the original text.
C8_ReturnedEntityInvariant ==
    IsLinkEntity =>
        /\ ~IsNone(lret.entity.anilist_id)
              => FracGE(lret.entity.confidence, lret.min_confidence)
        /\ IsNone(lret.entity.anilist_id)
              => /\ lret.entity.match_type = "none"
                 /\ lret.entity.normalized_title = lret.entity.original_text

\* the best similarity of the resolved text over every title of every
\* candidate, straight from the definition
BestScore(resolved_text, results) ==
    LET scores == {_calculate_similarity(resolved_text, t) :
                      t \in UNION {{a.title_romaji} \cup Range(a.title_english)
                                     \cup Range(a.title_native) : a \in Range(results)}}
    IN  CHOOSE x \in scores : \A y \in scores : FracGE(x, y)

\* C9: on a cache miss, no candidates gives confidence 0.0; a best similarity
\* below min_confidence gives confidence equal to that best score; in both
\* cases anilist_id, mal_id and anime_data are null, match_type is "none" and
\* normalized_title is the original text.
C9_MissBelowThreshold ==
    IsCacheMiss =>
        /\ lret.entity.original_text = lret.text
        /\ Val(lret.results) = <<>>
              => /\ lret.entity.confidence = Frac(0, 1)
                 /\ Unlinked(lret.entity)
        /\ Val(lret.results) # <<>>
              => \A best \in {BestScore(_resolve_alias(KNOWN_ALIASES, lret.text),
                                        Val(lret.results))} :
                    ~FracGE(best, lret.min_confidence)
                       => /\ lret.entity.confidence = best
                          /\ Unlinked(lret.entity)

\* a miss whose best candidate scored above zero and below the threshold
C9_Witness ==
    /\ IsCacheMiss
    /\ Val(lret.results) # <<>>
    /\ IsNone(lret.entity.anilist_id)
    /\ lret.entity.confidence.num > 0

\* C10: once link_entity has written the entry of t's key, a linker
\* constructed later, within its cache_ttl_hours and with no clear_cache in
\* between, answers link_entity(t, use_cache=True) from the cache with no
\* catalog call, whatever other instances wrote in between.
C10_EntrySurvivesForLaterLinker ==
    (/\ IsLinkEntity
     /\ lret.use_cache
     /\ ~IsNone(seen[lret.linker][_get_cache_key(lret.text)])
     /\ lret.at - Val(seen[lret.linker][_get_cache_key(lret.text)])
           < linkers[lret.linker].cache_ttl)
        => lret.catalog_calls = 0

(***************************************************************************)
(* The client properties.  Each is read off cret, the client call that has *)
(* just ended.                                                             *)
(***************************************************************************)
IsClientCall == cret # Idle

\* C11: get_trending_anime, get_seasonal_anime, get_top_anime and
\* search_anime return an empty list, and get_anime_details returns None,
\* without raising, for every remote outcome: timeout, connection failure,
\* non-2xx status, an errors payload, a non-JSON body and a JSON body of
\* unexpected shape (a null Page, a media entry with a null title, studios,
\* tags or coverImage, a tag with no name).
C11_ClientNeverRaises ==
    IsClientCall =>
        /\ ~cret.res.raised
        /\ cret.outcome \notin {Body(b) : b \in GoodBodies(cret.op)}
              => cret.res.value = <<>>

\* C12: each request of one client goes out no earlier than RATE_LIMIT_DELAY
\* after the client's previous request, whatever the endpoints; a call that
\* arrives too early sleeps and then issues its request, it is never
\* rejected.
C12_RequestsSpaced ==
    IsClientCall =>
        /\ cret.requests = 1
        /\ cret.issued_at >= cret.arrived_at
        /\ cret.slept = cret.issued_at - cret.arrived_at
        /\ ~IsNone(cret.previous)
              => cret.issued_at - Val(cret.previous) >= RATE_LIMIT_DELAY

\* a call that arrived less than RATE_LIMIT_DELAY after the previous request
\* of another endpoint, and slept
C12_Witness ==
    /\ IsClientCall
    /\ ~IsNone(cret.previous)
    /\ cret.arrived_at - Val(cret.previous) < RATE_LIMIT_DELAY
    /\ cret.slept > 0
    /\ cret.op = "get_anime_details"

(***************************************************************************)
(* The extraction properties.  Each is read off eret, the extraction call  *)
(* that has just ended.                                                    *)
(***************************************************************************)
\* C13: with aot -> Attack on Titan in the alias table and a catalog whose
\* search for "Attack on Titan" returns one candidate with title_english
\* "Attack on Titan" and anilist_id 16498, extract_and_link on the text
\* "New trailer for [Attack on Titan] dropped!" produces exactly one
\* LinkedEntity, with anilist_id 16498, match_type "exact" and confidence 1.0.
C13_EndToEndExample ==
    (/\ eret.op = "extract_and_link"
     /\ eret.text = T_NewTrailer
     /\ eret.catalog = "attack_on_titan"
     /\ T_aot \in DOMAIN KNOWN_ALIASES
     /\ KNOWN_ALIASES[T_aot] = T_AttackOnTitan)
        => /\ Len(eret.value) = 1
           /\ eret.value[1].anilist_id = Some(16498)
           /\ eret.value[1].match_type = "exact"
           /\ eret.value[1].confidence = Frac(1, 1)

\* the alias stands in the text with no word character on either side
OccursAsWholeWord(alias, text_lower) ==
    \E p \in 1..(Len(text_lower) - Len(alias) + 1) :
        /\ SubSeq(text_lower, p, p + Len(alias) - 1) = alias
        /\ ~IsW(text_lower, p - 1)
        /\ ~IsW(text_lower, p + Len(alias))
\* the alias table without one key
AliasesWithout(alias) == [k \in DOMAIN KNOWN_ALIASES \ {alias} |-> KNOWN_ALIASES[k]]
KeysWithout(alias) == SelectSeq(alias_keys, LAMBDA k : k # alias)

\* C14: after add_alias(a, F), extract_entities(text) includes F whenever a
\* occurs in text as a whole word, case-insensitively, and does not include F
\* on account of a when a occurs only inside a longer word.
C14_AliasRoundTrip ==
    eret.op = "extract_entities" =>
        \A i \in DOMAIN added :
            LET a == Lower(added[i].alias)
                F == added[i].full_name
            IN  KNOWN_ALIASES[a] = F =>
                  /\ OccursAsWholeWord(a, Lower(eret.text))
                        => \E j \in DOMAIN eret.value : eret.value[j] = F
                  /\ ~OccursAsWholeWord(a, Lower(eret.text))
                        => \A j \in DOMAIN eret.value :
                              eret.value[j] = F
                                 => F \in Range(extract_entities(AliasesWithout(a),
                                                                 KeysWithout(a),
                                                                 eret.text))

(***************************************************************************)
(* The properties of the functions, read off input and output.             *)
(***************************************************************************)
\* a text in normal form: no upper-case letter, only word characters,
\* spaces, "-", ":", "!" and "?", no space at either end and no two spaces
\* in a row
IsNormalForm(text) ==
    /\ \A i \in DOMAIN text :
          /\ text[i] \notin Range(UpperCase)
          /\ IsWordChar(text[i]) \/ text[i] \in {" ", "-", ":", "!", "?"}
          /\ (text[i] = " ") => (i > 1 /\ i < Len(text) /\ text[i + 1] # " ")

\* C15: normalize(normalize(x)) = normalize(x) for every text x, where
\* normalize lower-cases, removes every character but word characters,
\* whitespace, "-", ":", "!" and "?", collapses whitespace runs to one space
\* and trims; the cache key is the same normal form, and so are the strings
\* compared for similarity.
C15_NormalizeIdempotent ==
    input.fn = "_normalize_text" =>
        /\ Len(output) >= 1
              => /\ IsNormalForm(output[1])
                 /\ _get_cache_key(input.text) = output[1]
                 /\ _calculate_similarity(input.text, output[1]) = Frac(1, 1)
        /\ Len(output) = 2 => output[2] = output[1]

\* a text the first pass changes (case, a removed character and whitespace
\* at once), normalized twice
C15_Witness ==
    /\ input.fn = "_normalize_text"
    /\ Len(output) = 2
    /\ input.text = <<" ", "A", "#", "\t">>
    /\ output[1] = <<"a">>

Present(title) == ~IsNone(title) /\ Val(title) # <<>>

\* C20: get_best_title returns the English title when present, otherwise the
\* romanized title when present, otherwise the native title when present,
\* otherwise "Unknown", for every combination of present and absent titles.
C20_BestTitleOrder ==
    (input.fn = "get_best_title" /\ output # <<>>) =>
        LET a == input.anime
        IN  /\ Present(a.title_english) => output[1] = Val(a.title_english)
            /\ (~Present(a.title_english) /\ a.title_romaji # <<>>)
                  => output[1] = a.title_romaji
            /\ (~Present(a.title_english) /\ a.title_romaji = <<>>
                   /\ Present(a.title_native))
                  => output[1] = Val(a.title_native)
            /\ (~Present(a.title_english) /\ a.title_romaji = <<>>
                   /\ ~Present(a.title_native))
                  => output[1] = T_Unknown

\* only the native title is present, and it is returned
C20_Witness ==
    /\ input.fn = "get_best_title"
    /\ output # <<>>
    /\ IsNone(input.anime.title_english)
    /\ input.anime.title_romaji = <<>>
    /\ Present(input.anime.title_native)
    /\ output[1] = Val(input.anime.title_native)

\* the season of a calendar quarter
QuarterSeason == <<"WINTER", "SPRING", "SUMMER", "FALL">>

\* C19: get_current_season maps the month of the clock to the season of its
\* calendar quarter, for all 12 months (1-3 WINTER, 4-6 SPRING, 7-9 SUMMER,
\* 10-12 FALL), and returns the year of the clock.
C19_SeasonByQuarter ==
    (input.fn = "get_current_season" /\ output # <<>>) =>
        /\ output[1].season = QuarterSeason[((input.today.month - 1) \div 3) + 1]
        /\ output[1].year = input.today.year

\* December gives FALL of the same year
C19_Witness ==
    /\ input.fn = "get_current_season"
    /\ output # <<>>
    /\ input.today.month = 12
    /\ output[1] = [year |-> 2025, season |-> "FALL"]

(***************************************************************************)
(* More feed properties, read off fret as above.                           *)
(***************************************************************************)
IsAddSource == fret.op = "add_source"

\* C16: add_source with a reliability_score below 0 or above 1 returns False
\* and leaves the registry as it was (no key added, no entry overwritten);
\* with a score in [0, 1] it returns True and the registry then holds the
\* given entry under the key.
C16_AddSourceRange ==
    IsAddSource =>
        /\ (fret.reliability_score < 0 \/ fret.reliability_score > 100)
              => /\ fret.value = FALSE
                 /\ sources = fret.before
        /\ (fret.reliability_score >= 0 /\ fret.reliability_score <= 100)
              => /\ fret.value = TRUE
                 /\ DictHas(sources, fret.key)
                 /\ DictGet(sources, fret.key) =
                        SourceEntry(fret.key, Some(fret.name), Some(fret.url),
                                    Some(fret.reliability_score), None)
                 /\ DictDel(sources, fret.key) = DictDel(fret.before, fret.key)

\* a score just above 1 is refused while the key is in the registry already
C16_Witness ==
    /\ IsAddSource
    /\ fret.reliability_score = 101
    /\ DictHas(fret.before, fret.key)
    /\ fret.value = FALSE

\* C17: every item fetch_source returns has no publish date or a publish
\* date inside [now - days, now]: items dated before now - days are
\* excluded, and so are items dated after now.
C17_ItemsInsideWindow ==
    (IsFetchSource /\ ~fret.res.raised) =>
        \A i \in DOMAIN fret.res.value :
            LET published_at == fret.res.value[i].published_at
            IN  \/ IsNone(published_at)
                \/ /\ Val(published_at).age <= fret.days
                   /\ Val(published_at).age >= 0

\* newest first, the undated items after all dated ones
IsNewestFirst(items) ==
    \A i, j \in DOMAIN items :
        i < j =>
            LET earlier == items[i].published_at
                later == items[j].published_at
            IN  /\ IsNone(earlier) => IsNone(later)
                /\ (~IsNone(earlier) /\ ~IsNone(later))
                      => Val(earlier).age <= Val(later).age

\* C18: fetch_all_sources returns the items ordered by publish date, newest
\* first, every item with no publish date placed after all dated items.
C18_NewestFirst ==
    IsFetchAll =>
        /\ ~fret.res.raised
        /\ IsNewestFirst(fret.res.items)

\* the same for the batches that return
C18_NewestFirstWhenReturned ==
    (IsFetchAll /\ ~fret.res.raised) => IsNewestFirst(fret.res.items)

(***************************************************************************)
(* The best match of link_entity, read off a call that went past the cache *)
(* (SpecFunctions).                                                        *)
(***************************************************************************)
\* the title variants of a candidate the loop reads: not None, not ""
PresentTitles(a) ==
    {t \in {a.title_romaji} \cup Range(a.title_english) \cup Range(a.title_native) :
        t # <<>>}

\* the scores of one candidate, and the highest score of a list
ScoresOf(resolved_text, a) ==
    {_calculate_similarity(resolved_text, t) : t \in PresentTitles(a)}
MaxScore(resolved_text, results) ==
    LET scores == {Frac(0, 1)} \cup
                  UNION {ScoresOf(resolved_text, results[i]) : i \in DOMAIN results}
    IN  CHOOSE x \in scores : \A y \in scores : FracGE(x, y)

IsLinkMiss == input.fn = "link_entity" /\ output # <<>>

\* C21: on a cache miss with a non-empty search result, the confidence of
\* the result is the highest similarity of the resolved text to any title
\* variant of any candidate; an accepted result carries the first candidate
\* (in list order) that reaches this score, and its match_type is "exact"
\* from 0.95, "fuzzy" from 0.7 and "partial" below.
C21_BestMatch ==
    IsLinkMiss =>
        \A best \in {MaxScore(_resolve_alias(KNOWN_ALIASES, input.text),
                               input.results)} :
            /\ output[1].confidence = best
            /\ ~IsNone(output[1].anilist_id) =>
                  /\ output[1].anime_data =
                        Some(input.results[SetMin({i \in DOMAIN input.results :
                            best \in ScoresOf(_resolve_alias(KNOWN_ALIASES, input.text),
                                              input.results[i])})])
                  /\ output[1].match_type =
                        (IF FracGE(best, Pct(95)) THEN "exact"
                         ELSE IF FracGE(best, Pct(70)) THEN "fuzzy"
                         ELSE "partial")

\* an accepted partial match on a list whose two candidates score the same
C21_Witness ==
    /\ IsLinkMiss
    /\ output[1].match_type = "partial"
    /\ Len(input.results) = 2
    /\ input.results[1] # input.results[2]
    /\ ScoresOf(input.text, input.results[1]) = ScoresOf(input.text, input.results[2])

(***************************************************************************)
(* The alias table in link_entity (SpecExtract).                           *)
(***************************************************************************)
IsLinkAlias == eret.op = "link_entity"

\* C22: link_entity(x, use_cache=False) searches the catalog for F when x is,
\* up to letter case, an alias of the table (built in, or given to add_alias
\* with F), and for x itself when x is no alias.
C22_AliasSentToCatalog ==
    IsLinkAlias =>
        /\ \A a \in DOMAIN KNOWN_ALIASES :
              Lower(eret.text) = a => eret.query = KNOWN_ALIASES[a]
        /\ Lower(eret.text) \notin DOMAIN KNOWN_ALIASES => eret.query = eret.text

(***************************************************************************)
(* The limit of fetch_source (SpecFeed).                                   *)
(***************************************************************************)
\* the first n items of a list
FirstItems(items, n) == SubSeq(items, 1, IF n < Len(items) THEN n ELSE Len(items))

\* C23: with a limit n >= 0, the list fetch_source returns for an answered
\* request has at most n items: the first n of the date-filtered list, in
\* feed order.
C23_LimitAfterFilter ==
    (/\ IsFetchSource
     /\ ~fret.res.raised
     /\ fret.res.http = 1
     /\ fret.outcome.kind = "ok"
     /\ ~IsNone(fret.limit))
        => /\ Len(fret.res.value) <= Val(fret.limit)
           /\ fret.res.value =
                 FirstItems(SelectSeq(_parse_feed(sources, fret.outcome, fret.key),
                                      LAMBDA it : InWindow(it, fret.days)),
                            Val(fret.limit))

(***************************************************************************)
(* The scores of the registry and of the items (SpecFeed).                 *)
(***************************************************************************)
\* a score in [0, 1], in hundredths
InUnitRange(score) == ~IsNone(score) /\ Val(score) >= 0 /\ Val(score) <= 100

\* C24: after construction with any custom_sources and after any add_source
\* and remove_source calls, every entry of the registry has a
\* reliability_score in [0, 1], and so has every item fetch_source returns.
C24_ScoresInUnitRange ==
    /\ \A i \in DOMAIN sources : InUnitRange(sources[i].reliability_score)
    /\ (IsFetchSource /\ ~fret.res.raised) =>
          \A i \in DOMAIN fret.res.value :
              InUnitRange(fret.res.value[i].reliability_score)

(***************************************************************************)
(* The lists of a parsed media (SpecFunctions).                            *)
(***************************************************************************)
IsParseAnime == input.fn = "_parse_anime" /\ output # <<>> /\ ~output[1].raised

\* the response's list behind a field of the record
ResponseTags == input.media.f.tags.l
ResponseEdges(key) == input.media.f[key].f.edges.l

\* the first ten entries of a list of edges that have a node
FirstTenWithNode(key) == WithNode(FirstItems(ResponseEdges(key), 10))

\* C25: the record _parse_anime builds has at most 10 tags, 10 relations, 10
\* characters and 10 staff entries, each list made of the first 10 entries
\* of the response in the order of the response.
C25_ListsCutAtTen ==
    IsParseAnime =>
        /\ Len(output[1].tags) <= 10
        /\ [i \in DOMAIN output[1].tags |-> output[1].tags[i].name]
              = [i \in DOMAIN FirstItems(ResponseTags, 10) |-> ResponseTags[i].f.name]
        /\ \A key \in {"characters", "staff"} :
              /\ Len(output[1][key]) <= 10
              /\ [i \in DOMAIN output[1][key] |-> output[1][key][i].name]
                    = [i \in DOMAIN FirstTenWithNode(key) |->
                          FirstTenWithNode(key)[i].f.node.f.name.f.full]
        /\ Len(output[1].relations) <= 10
        /\ [i \in DOMAIN output[1].relations |-> output[1].relations[i].anilist_id]
              = [i \in DOMAIN FirstTenWithNode("relations") |->
                    FirstTenWithNode("relations")[i].f.node.f.id]

(***************************************************************************)
(* The cache file and the memory of a linker (SpecLinker).                 *)
(***************************************************************************)
\* the keys of the file whose entry is younger than ttl at the time "at"
YoungKeys(file, at, ttl) ==
    IF IsNone(file) THEN {}
    ELSE {k \in DOMAIN Val(file) : at - Val(file)[k].cached_at < ttl}

\* a construction leaves in memory the young entries of the file, no others
LoadsYoungEntries ==
    \A i \in Linkers :
        Construct(i) =>
            /\ DOMAIN linkers'[i].cache = YoungKeys(cache_file, now, linkers'[i].cache_ttl)
            /\ \A k \in DOMAIN linkers'[i].cache :
                  linkers'[i].cache[k] = Val(cache_file)[k]

\* after a call that reached the catalog the file is the memory of the
\* linker, with the entry of the call in it
FileIsMemory ==
    IsCacheMiss =>
        /\ cache_file = Some(linkers[lret.linker].cache)
        /\ _get_cache_key(lret.text) \in DOMAIN Val(cache_file)
        /\ Val(cache_file)[_get_cache_key(lret.text)] = CacheEntry(lret.entity, lret.at)

C27_StatsAddUp ==
    (IsFetchAll /\ ~fret.res.raised) =>
        /\ fret.res.stats.total_sources =
              fret.res.stats.successful_sources + fret.res.stats.failed_sources
                + fret.res.stats.skipped_sources
        /\ (fret.res.items = <<>>) <=> (fret.res.stats.successful_sources = 0)

\* a batch over a list with a repeated key and an unknown key, the repeated
\* source answering both times
C27_Witness ==
    /\ IsFetchAll
    /\ ~fret.res.raised
    /\ fret.sources_arg = Some(<<"ann", "nope", "ann">>)
    /\ fret.res.stats.successful_sources = 2
    /\ fret.res.stats.failed_sources = 1

(***************************************************************************)
(* The task locks (SpecTasks).                                             *)
(***************************************************************************)
\* thread t is past a successful acquire of the task's lock and before the
\* end of the finally block
InTask(t, task_name) ==
    threads[t].task_name = task_name /\ threads[t].pc \in {"start", "work", "finally"}
Refused(t) == threads[t].pc = "done" /\ threads[t].exit = "refused"

\* at most one thread in a task; a refused invocation has success False, an
\* error message, no run log and no session
OneInTask ==
    /\ \A task_name \in Tasks :
          Cardinality({t \in Threads : InTask(t, task_name)}) <= 1
    /\ \A t \in Threads :
          Refused(t) => /\ ~threads[t].success
                        /\ threads[t].error_message
                        /\ IsNone(threads[t].run_log_id)
                        /\ ~threads[t].session

\* the acquire step of a thread is refused exactly when another thread is in
\* the same task; a refused thread is back at once, and the database is as
\* it was
RefusedBySameTaskOnly ==
    \A t \in Threads :
        (threads[t].pc = "acquire" /\ threads'[t].pc # "acquire") =>
            /\ (threads'[t].pc = "done" /\ threads'[t].exit = "refused")
                  <=> \E u \in Threads \ {t} : InTask(u, threads[t].task_name)
            /\ (threads'[t].pc = "start")
                  <=> ~\E u \in Threads \ {t} : InTask(u, threads[t].task_name)
            /\ run_logs' = run_logs

\* C28: for each task name at most one invocation is in the body of the task
\* at any time, under any interleaving of the threads; an invocation that
\* starts while another one of the same task holds the lock returns at once
\* with success False and an error message, with no run log and no access to
\* the database; invocations of different tasks never block each other.
C28_OneInvocationPerTask == []OneInTask /\ [][RefusedBySameTaskOnly]_vars

\* one thread refused, a second in the same task, a third in another task
C28_Witness ==
    \E t \in Threads, u \in Threads, v \in Threads :
        /\ Refused(t)
        /\ InTask(u, threads[t].task_name)
        /\ threads[v].task_name # threads[t].task_name
        /\ InTask(v, threads[v].task_name)

\* C29: the lock of a task is released on every way out of the invocation
\* that acquired it (return, early return, exception caught in the task,
\* exception escaping session_scope or create_run) and by no invocation that
\* was refused: is_task_running(task) is True exactly while an invocation is
\* in the task, so with none in it a later invocation can acquire the lock.
C29_LockedWhileInTask ==
    \A task_name \in Tasks :
        is_task_running(_task_locks, task_name)
            <=> \E t \in Threads : InTask(t, task_name)

\* an invocation has ended with an exception, and a later invocation of the
\* same task has acquired the lock
C29_Witness ==
    \E t \in Threads, u \in Threads :
        /\ threads[t].pc = "done"
        /\ threads[t].exit = "raised"
        /\ IsNone(threads[t].run_log_id)
        /\ InTask(u, threads[t].task_name)

(***************************************************************************)
(* One alias table for all linkers, one registry for each parser           *)
(* (SpecShared).                                                           *)
(***************************************************************************)
\* the keys add_alias has been given so far, and the full name the last of
\* the first n calls for a key left under it
AddedKeys == {Lower(added[n].alias) : n \in DOMAIN added}
RECURSIVE LastAdded(_, _)
LastAdded(k, n) ==
    IF n = 0 THEN None
    ELSE IF Lower(added[n].alias) = k THEN Some(added[n].full_name)
    ELSE LastAdded(k, n - 1)

\* what a call on any linker shows of the aliases added on any linker
AliasesSeenByAll ==
    \A k \in AddedKeys :
        \E F \in {Val(LastAdded(k, Len(added)))} :
            /\ eret.op = "get_aliases" =>
                  k \in DOMAIN eret.value /\ eret.value[k] = F
            /\ (eret.op = "extract_entities" /\ AliasFound(k, Lower(eret.text))) =>
                  \E j \in DOMAIN eret.value :
                      _normalize_text(eret.value[j]) = _normalize_text(F)
            /\ (eret.op = "link_entity" /\ _normalize_text(eret.text) = k) =>
                  eret.query = F

\* add_source and remove_source on a parser leave every other dict as it was
RegistriesApart ==
    fret.op \in {"add_source", "remove_source"} =>
        \A o \in ObjectNames \ {fret.on} : objects[o] = fret.before[o]

====
